---- MODULE Spec2Model ----
(***************************************************************************)
(* AutoCaption4Lora: the Result Store (path validation, write lock), the   *)
(* Error Classifier, the Caption Generators and the batch pipeline         *)
(* (upload, process, download).                                            *)
(*                                                                         *)
(* Text is modelled as a sequence of one-character strings wherever the    *)
(* code looks inside it (paths, file names).                               *)
(***************************************************************************)
EXTENDS Naturals, Integers, Sequences, FiniteSets, TLC

VARIABLES
    \* ---- Result Store ----
    files,        \* the regular files that exist: absolute path -> content
    lockPromise,  \* Store.lockPromise: NoPromise, or the caller whose acquireLock created it
    pc,           \* each caller's position in its mutating Store operation
    awaiting,     \* the lock promise a waiting caller awaits (by its creator)
    opKind,       \* the mutating operation each caller is in
    lastOp,       \* the last Store operation that completed: what it was given, touched, returned
    \* ---- Error Classifier ----
    errorMessage, \* the raw message handed to ErrorHandler.fromException
    context,      \* its context argument
    appError,     \* the AppError it returned
    \* ---- Caption Generator ----
    gen,          \* one call of generateCaption / generateCaptionOpenAI
    \* ---- Upload, process, download ----
    batch,        \* one client's requests and the batch run of POST /process
    archive,      \* the entries of the last archive GET /download streamed
    \* ---- Requests served side by side ----
    upload,       \* the last POST /upload: what was sent, accepted and stored
    runs,         \* each POST /process request: its position, its provider calls
    env,          \* process.env: which credentials are set
    \* ---- Caption and prompt text ----
    built,        \* one call of buildCaption, and a second one on its output
    prompt,       \* one prompt built by a caption generator
    \* ---- Rate limiter ----
    limiter,      \* the RateLimiter: its entries, the clock, the last check
    \* ---- A mutating operation call by call ----
    io            \* one mutating Store operation, one filesystem call after
                  \* another, and the last read made beside it

storeVars == <<files, lockPromise, pc, awaiting, opKind, lastOp>>

classifyVars == <<errorMessage, context, appError>>

captionVars == <<gen>>

pipeVars == <<batch, archive>>

requestVars == <<upload, runs, env>>

formatVars == <<built, prompt>>

limitVars == <<limiter>>

ioVars == <<io>>

vars == <<storeVars, classifyVars, captionVars, pipeVars, requestVars, formatVars, limitVars, ioVars>>

----------------------------------------------------------------------------
(* Bounds of the model *)

NCallers == 3
MaxImages == 2

Callers == 1..NCallers
NoPromise == 0

----------------------------------------------------------------------------
(* Text helpers *)

RECURSIVE startsWith(_, _)
\* String.prototype.startsWith: character prefix
startsWith(s, prefix) ==
    IF prefix = <<>> THEN TRUE
    ELSE IF s = <<>> THEN FALSE
    ELSE Head(s) = Head(prefix) /\ startsWith(Tail(s), Tail(prefix))

endsWith(s, suffix) ==
    /\ Len(s) >= Len(suffix)
    /\ SubSeq(s, Len(s) - Len(suffix) + 1, Len(s)) = suffix

RECURSIVE SegmentsFrom(_, _, _)
SegmentsFrom(s, done, cur) ==
    IF s = <<>> THEN Append(done, cur)
    ELSE IF Head(s) = "/" THEN SegmentsFrom(Tail(s), Append(done, cur), <<>>)
    ELSE SegmentsFrom(Tail(s), done, Append(cur, Head(s)))

\* s split on "/", empty segments kept
Segments(s) == SegmentsFrom(s, << >>, << >>)

RECURSIVE NormalizeSegments(_, _)
\* path.normalize on the segments of an absolute path: "" and "." dropped,
\* ".." removes the segment before it and is dropped at the root
NormalizeSegments(segs, acc) ==
    IF segs = <<>> THEN acc
    ELSE LET h == Head(segs) IN
         IF h = <<>> \/ h = <<".">> THEN NormalizeSegments(Tail(segs), acc)
         ELSE IF h = <<".", ".">>
              THEN NormalizeSegments(Tail(segs),
                       IF acc = <<>> THEN acc ELSE SubSeq(acc, 1, Len(acc) - 1))
              ELSE NormalizeSegments(Tail(segs), Append(acc, h))

RECURSIVE JoinSegments(_)
JoinSegments(segs) ==
    IF segs = <<>> THEN <<>>
    ELSE <<"/">> \o Head(segs) \o JoinSegments(Tail(segs))

\* the absolute path made of these segments ("/" for none)
AbsPath(segs) == IF segs = <<>> THEN <<"/">> ELSE JoinSegments(segs)

RECURSIVE StripTrailingSlashes(_)
StripTrailingSlashes(s) ==
    IF s # <<>> /\ s[Len(s)] = "/"
    THEN StripTrailingSlashes(SubSeq(s, 1, Len(s) - 1))
    ELSE s

\* path.basename: the last segment, trailing separators ignored
pathBasename(f) ==
    LET segs == Segments(StripTrailingSlashes(f)) IN segs[Len(segs)]

\* path.join(baseDir, name) for an absolute baseDir: joined with "/" and
\* normalized; a trailing separator of the name is kept by normalize
pathJoin(baseDir, name) ==
    LET segs == NormalizeSegments(Segments(baseDir \o <<"/">> \o name), <<>>)
        p == AbsPath(segs)
    IN IF name # <<>> /\ name[Len(name)] = "/" /\ segs # <<>>
       THEN p \o <<"/">> ELSE p

\* path.resolve of an absolute path: normalized, no trailing separator
pathResolve(p) == AbsPath(NormalizeSegments(Segments(p), <<>>))

\* the directory a path lies in
pathDirname(p) ==
    LET segs == NormalizeSegments(Segments(p), <<>>) IN
    IF segs = <<>> THEN <<"/">> ELSE AbsPath(SubSeq(segs, 1, Len(segs) - 1))

\* p is baseDir or lies below it (by path components, not by characters)
Inside(baseDir, p) ==
    LET b == NormalizeSegments(Segments(baseDir), <<>>)
        q == NormalizeSegments(Segments(p), <<>>)
    IN Len(q) >= Len(b) /\ SubSeq(q, 1, Len(b)) = b

----------------------------------------------------------------------------
(* The filesystem layout *)

CWD == <<"/", "w">>
UPLOAD_DIR == pathJoin(CWD, <<"u">>)
PROCESSED_DIR == pathJoin(CWD, <<"p">>)
LOGS_FILE == pathJoin(CWD, <<"l">>)

\* the directories that exist
Dirs == { <<"/">>, CWD, UPLOAD_DIR, PROCESSED_DIR, <<"/", "e", "t", "c">> }

\* the directories the Store keeps files in
StoreDirs == { UPLOAD_DIR, PROCESSED_DIR }

\* "_.txt" for the caption file: filename.replace(/\.[^.]+$/, ".txt")
DotTxt == <<".", "t", "x", "t">>

LastDot(s) == IF \E i \in 1..Len(s) : s[i] = "."
              THEN CHOOSE i \in 1..Len(s) : s[i] = "." /\ \A j \in (i+1)..Len(s) : s[j] # "."
              ELSE 0

\* the regular expression matches from the last "." when at least one
\* character follows it; otherwise the name is left as it is
replaceExtWithTxt(s) ==
    LET i == LastDot(s) IN
    IF i = 0 \/ i = Len(s) THEN s ELSE SubSeq(s, 1, i - 1) \o DotTxt

\* validatePath without path.basename: the name is joined as it is
validatePathOfWholeName(baseDir, filename) ==
    LET safePath == pathJoin(baseDir, filename)
    IN [ok |-> startsWith(pathResolve(safePath), pathResolve(baseDir)), path |-> safePath]

\* validatePath(baseDir, filename): ok = FALSE when it throws
\* "Invalid file path: directory traversal detected"
validatePath(baseDir, filename) ==
    LET safePath == pathJoin(baseDir, pathBasename(filename))
        resolvedPath == pathResolve(safePath)
        resolvedBaseDir == pathResolve(baseDir)
    IN [ok |-> startsWith(resolvedPath, resolvedBaseDir), path |-> safePath]

\* file names a caller may pass
Passwd == <<".", ".", "/", ".", ".", "/", "e", "t", "c", "/", "p", "a", "s", "s", "w", "d">>

ImgName == <<"a", ".", "j", "p", "g">>

\* plain, with parent-directory components, ending in ".." and "."
StoreNames == { ImgName, Passwd, <<"a", "/", ".", ".">>, <<".">> }

\* POST /api/upload: the names of the files the client sends

MAX_FILES == 100

MAX_FILE_SIZE == 10 * 1024 * 1024

ALLOWED_EXTENSIONS ==
    { <<".", "j", "p", "g">>, <<".", "j", "p", "e", "g">>, <<".", "p", "n", "g">>,
      <<".", "w", "e", "b", "p">> }

DigitChars == << "0", "1", "2", "3", "4", "5", "6", "7", "8", "9" >>

\* the characters /[a-zA-Z0-9._-]/ matches
SafeChars ==
    { "a", "b", "c", "d", "e", "f", "g", "h", "i", "j", "k", "l", "m", "n", "o", "p", "q",
      "r", "s", "t", "u", "v", "w", "x", "y", "z",
      "A", "B", "C", "D", "E", "F", "G", "H", "I", "J", "K", "L", "M", "N", "O", "P", "Q",
      "R", "S", "T", "U", "V", "W", "X", "Y", "Z", ".", "_", "-" }
    \cup { DigitChars[i] : i \in 1..Len(DigitChars) }

\* String.prototype.toLowerCase on the letters the names are written with
lowerChar(c) ==
    CASE c = "J" -> "j" [] c = "P" -> "p" [] c = "G" -> "g" [] OTHER -> c

toLowerChars(t) == [i \in 1..Len(t) |-> lowerChar(t[i])]

\* path.extname: from the last "." of the last component, "" when there is
\* none or when it is the first character
extname(f) ==
    LET b == pathBasename(f)
        i == LastDot(b)
    IN IF i <= 1 THEN <<>> ELSE SubSeq(b, i, Len(b))

\* path.basename(f, ext)
basenameWithout(f, ext) ==
    LET b == pathBasename(f) IN
    IF ext # <<>> /\ Len(b) > Len(ext) /\ endsWith(b, ext)
    THEN SubSeq(b, 1, Len(b) - Len(ext)) ELSE b

\* path.basename(file.name).replace(/[^a-zA-Z0-9._-]/g, '_')
sanitizedName(name) ==
    LET b == pathBasename(name) IN
    [i \in 1..Len(b) |-> IF b[i] \in SafeChars THEN b[i] ELSE "_"]

RECURSIVE Digits(_)
\* Number.prototype.toString
Digits(n) ==
    IF n < 10 THEN << DigitChars[n + 1] >>
    ELSE Append(Digits(n \div 10), DigitChars[(n % 10) + 1])

RECURSIVE padStart(_, _, _)
padStart(t, len, ch) == IF Len(t) >= len THEN t ELSE padStart(<<ch>> \o t, len, ch)

\* the key of an upload whatever keys are taken
uploadKeyAsSent(name, counter, key, taken) == name

\* `${nameWithoutExt}_${counter}${ext}`
counterKey(name, counter) ==
    basenameWithout(name, extname(name)) \o <<"_">> \o Digits(counter) \o extname(name)

\* the counters from counter on whose key is not taken; one of them is
\* among the first Cardinality(taken) + 1
freeCounters(name, counter, taken) ==
    { c \in counter..(counter + Cardinality(taken)) : counterKey(name, c) \notin taken }

\* while (uploadedImages.has(key)) { key = `${nameWithoutExt}_${counter}${ext}`; counter++ }
\* the loop ends at the first counter whose key is not taken
uploadKey(name, counter, key, taken) ==
    IF key \notin taken THEN key
    ELSE counterKey(name, CHOOSE c \in freeCounters(name, counter, taken) :
                             \A d \in freeCounters(name, counter, taken) : c <= d)

\* Map.prototype.set on a map kept in insertion order
mapSet(images, key, data) ==
    IF \E i \in 1..Len(images) : images[i].name = key
    THEN [i \in 1..Len(images) |->
            IF images[i].name = key THEN [name |-> key, data |-> data] ELSE images[i]]
    ELSE Append(images, [name |-> key, data |-> data])

ImageType == << "image/", "jpeg" >>

TextType == << "text/", "plain" >>

\* the files a client sends: images, one of them twice over under the same
\* last component, a file that is no image, one of a format not allowed and
\* one too large
UploadFiles ==
    { [name |-> n, type |-> ImageType, size |-> 1]
      : n \in { ImgName, <<".", ".", "/", "a", ".", "j", "p", "g">>,
                <<".", ".", "/", ".", ".", "/", "a", ".", "j", "p", "g">>,
                <<"a", " ", "b", ".", "J", "P", "G">> } }
    \cup { [name |-> ImgName, type |-> TextType, size |-> 1],
           [name |-> <<"c", ".", "g", "i", "f">>, type |-> ImageType, size |-> 1],
           [name |-> ImgName, type |-> ImageType, size |-> MAX_FILE_SIZE + 1] }

RECURSIVE FileLists(_)
FileLists(n) ==
    IF n = 0 THEN { <<>> }
    ELSE LET shorter == FileLists(n - 1) IN
         shorter \cup { Append(q, f) : q \in { r \in shorter : Len(r) = n - 1 },
                                       f \in UploadFiles }

UploadLists == FileLists(MaxImages)

\* one turn of the loop of POST /api/upload: a file that is no image is
\* skipped, the response is 400 at an image that is too large or of a
\* format not allowed
collectFile(file, images) ==
    IF ~startsWith(file.type, << "image/" >>) THEN [status |-> 200, images |-> images]
    ELSE IF file.size > MAX_FILE_SIZE THEN [status |-> 400, images |-> <<>>]
    ELSE IF toLowerChars(extname(file.name)) \notin ALLOWED_EXTENSIONS
    THEN [status |-> 400, images |-> <<>>]
    ELSE [status |-> 200,
          images |-> mapSet(images,
                            uploadKey(sanitizedName(file.name), 1, sanitizedName(file.name),
                                      { images[i].name : i \in 1..Len(images) }),
                            "img")]

RECURSIVE collectUploads(_, _)
\* the loop of POST /api/upload over the files, from the first to the last:
\* the turns for the first half of the list, then those for the second
collectUploads(left, images) ==
    IF left = <<>> THEN [status |-> 200, images |-> images]
    ELSE IF Len(left) = 1 THEN collectFile(Head(left), images)
    ELSE LET got == collectUploads(SubSeq(left, 1, Len(left) \div 2), images) IN
         IF got.status # 200 THEN got
         ELSE collectUploads(SubSeq(left, (Len(left) \div 2) + 1, Len(left)), got.images)

\* the name without the padding of the index
newFilenameUnpadded(prefix, idx) ==
    prefix \o <<"_">> \o Digits(idx) \o <<".", "j", "p", "g">>

\* const newFilename = `${prefix}_${idx.toString().padStart(5, "0")}.jpg`
newFilename(prefix, idx) ==
    prefix \o <<"_">> \o padStart(Digits(idx), 5, "0") \o <<".", "j", "p", "g">>

\* the prefixes a client asks for
Prefixes == { <<"p">>, <<".", ".", "/", "p">> }

\* the prefixes of two clients whose runs are served side by side
ClientPrefixes == { <<"p">>, <<"q">> }

\* a batch of n images, all sent under the same name
BatchOf(n) == [i \in 1..n |-> [name |-> ImgName, type |-> ImageType, size |-> 1]]

\* the names of a map kept in insertion order
keysOf(images) == { images[i].name : i \in 1..Len(images) }

\* const key = `image_${i.toString().padStart(5, "0")}_${file.name}`
legacyKey(i, name) ==
    << "i", "m", "a", "g", "e", "_" >> \o padStart(Digits(i), 5, "0") \o <<"_">> \o name

RECURSIVE collectLegacy(_, _, _)
\* the loop of the route that keys the uploads by their position: every
\* file of an image type is kept, under its name as sent
collectLegacy(left, i, images) ==
    IF left = <<>> THEN images
    ELSE IF startsWith(Head(left).type, << "image/" >>)
    THEN collectLegacy(Tail(left), i + 1,
                       mapSet(images, legacyKey(i, Head(left).name), "img"))
    ELSE collectLegacy(Tail(left), i + 1, images)

\* the names the routes hand to the Store
RouteNames ==
    UNION { { collectUploads(l, <<>>).images[i].name
              : i \in 1..Len(collectUploads(l, <<>>).images) } : l \in UploadLists }
    \cup { newFilename(pr, i) : pr \in Prefixes \cup ClientPrefixes, i \in 1..MaxImages }
    \cup keysOf(collectUploads(BatchOf(MAX_FILES), <<>>).images)
    \cup UNION { keysOf(collectLegacy(l, 0, <<>>)) : l \in UploadLists }

\* every name that occurs: the names given, their caption names, and the
\* names a directory listing gives back
FileNames ==
    UNION { { n, replaceExtWithTxt(n), pathBasename(n), pathBasename(replaceExtWithTxt(n)) }
            : n \in StoreNames \cup RouteNames }

\* every path that occurs
Paths ==
    Dirs \cup { LOGS_FILE } \cup { pathJoin(d, n) : d \in StoreDirs, n \in FileNames }

\* the path functions over the names and paths that occur, computed once
placeOf == [p \in Paths |-> [dir |-> pathDirname(p), name |-> pathBasename(p)]]

joined == [d \in StoreDirs |-> [n \in FileNames |-> pathJoin(d, n)]]

validated == [d \in StoreDirs |-> [n \in FileNames |-> validatePath(d, n)]]

txtNameOf == [n \in FileNames |-> replaceExtWithTxt(n)]

\* fs.readdirSync(dir): the names of the files directly in dir
readdir(fs, dir) ==
    { e.name : e \in { pl \in { placeOf[p] : p \in DOMAIN fs } : pl.dir = dir } }

\* fs.writeFileSync(p) succeeds on a file path in an existing directory
Writable(p) ==
    /\ p \notin Dirs
    /\ p[Len(p)] # "/"
    /\ placeOf[p].dir \in Dirs

----------------------------------------------------------------------------
(* Filesystem calls.  A call works on a record st:                          *)
(*   fs        the files (path -> content) after the calls made so far     *)
(*   accessed  every path a filesystem call was made on                    *)
(*   outcome   "ok", or how the operation threw: "traversal" (validatePath)*)
(*             or "io" (the filesystem call failed)                        *)

StartOf(fs) == [fs |-> fs, accessed |-> {}, outcome |-> "ok"]

Remove(fs, ps) == [q \in (DOMAIN fs) \ ps |-> fs[q]]

Put(fs, p, data) == (p :> data) @@ fs

\* fs.writeFileSync(p, data)
writeFileSync(st, p, data) ==
    IF st.outcome # "ok" THEN st
    ELSE IF Writable(p)
         THEN [st EXCEPT !.fs = Put(@, p, data), !.accessed = @ \cup {p}]
         ELSE [st EXCEPT !.accessed = @ \cup {p}, !.outcome = "io"]

\* fs.unlinkSync on each of the paths ps (all of them existing files)
unlinkAll(st, ps) ==
    IF st.outcome # "ok" THEN st
    ELSE [st EXCEPT !.fs = Remove(@, ps), !.accessed = @ \cup ps]

\* forEach(file => unlinkSync(validatePath(dir, file))): vs holds what
\* validatePath gives for the files, of which the doomed ones are deleted
unlinkEach(st, vs, doomed) ==
    IF \E v \in vs : ~v.ok THEN [st EXCEPT !.outcome = "traversal"]
    ELSE unlinkAll(st, { v.path : v \in vs } \cap doomed)

----------------------------------------------------------------------------
(* Result Store with path validation and a write lock *)

\* files.forEach(file => unlinkSync(validatePath(dir, file))) over readdirSync(dir),
\* for the doomed files of the directory (all of them, or the aged ones)
ClearDir(st, dir, doomed) ==
    IF st.outcome # "ok" THEN st
    ELSE unlinkEach([st EXCEPT !.accessed = @ \cup {dir}],
                    { validated[dir][n] : n \in readdir(st.fs, dir) }, doomed)

RECURSIVE SaveUploads(_, _)
\* for (const [filename, buffer] of images.entries()) { validatePath; writeFileSync }
\* the turns for the first half of the images, then those for the second
SaveUploads(images, st) ==
    IF images = <<>> \/ st.outcome # "ok" THEN st
    ELSE IF Len(images) = 1
    THEN LET v == validated[UPLOAD_DIR][Head(images).name] IN
         IF ~v.ok THEN [st EXCEPT !.outcome = "traversal"]
         ELSE writeFileSync(st, v.path, Head(images).data)
    ELSE SaveUploads(SubSeq(images, (Len(images) \div 2) + 1, Len(images)),
                     SaveUploads(SubSeq(images, 1, Len(images) \div 2), st))

\* the body of Store.setUploadedImages inside its try block
setUploadedImages(fs, images) ==
    SaveUploads(images, ClearDir(StartOf(fs), UPLOAD_DIR, DOMAIN fs))

RECURSIVE SaveResults(_, _)
\* for (const result of results) { validatePath x2; writeFileSync x2 }
SaveResults(results, st) ==
    IF results = <<>> \/ st.outcome # "ok" THEN st
    ELSE LET r == Head(results)
             img == validated[PROCESSED_DIR][r.filename]
             txt == validated[PROCESSED_DIR][txtNameOf[r.filename]]
         IN IF ~img.ok \/ ~txt.ok THEN [st EXCEPT !.outcome = "traversal"]
            ELSE SaveResults(Tail(results),
                     writeFileSync(writeFileSync(st, img.path, r.imageData),
                                   txt.path, r.caption))

\* a setProcessedResults that would write the results next to the files the
\* processed directory already holds
setProcessedResultsKeeping(fs, results) == SaveResults(results, StartOf(fs))

\* the body of Store.setProcessedResults inside its try block
setProcessedResults(fs, results) ==
    SaveResults(results, ClearDir(StartOf(fs), PROCESSED_DIR, DOMAIN fs))

\* if (fs.existsSync(LOGS_FILE)) unlinkSync(LOGS_FILE), for the doomed log
ClearLogFile(st, doomed) ==
    IF st.outcome # "ok" THEN st
    ELSE unlinkAll([st EXCEPT !.accessed = @ \cup {LOGS_FILE}],
                   {LOGS_FILE} \cap (DOMAIN st.fs) \cap doomed)

\* the body of Store.clearAll inside its try block
clearAll(fs) ==
    ClearLogFile(ClearDir(ClearDir(StartOf(fs), UPLOAD_DIR, DOMAIN fs),
                          PROCESSED_DIR, DOMAIN fs), DOMAIN fs)

\* the body of Store.cleanupOldFiles: only the files whose mtime is older than
\* maxAgeDays (old, as the clock and the mtimes have it) go
cleanupOldFiles(fs, old) ==
    ClearLogFile(ClearDir(ClearDir(StartOf(fs), UPLOAD_DIR, old),
                          PROCESSED_DIR, old), old)

ImageExts == { <<".", "j", "p", "g">>, <<".", "j", "p", "e", "g">>,
               <<".", "p", "n", "g">>, <<".", "w", "e", "b", "p">> }

\* f.match(/\.(jpg|jpeg|png|webp)$/i) on names in lower case
IsImageName(f) == \E e \in ImageExts : endsWith(f, e)

\* Store.getUploadedImages: name -> buffer for every file of the uploads directory
getUploadedImages(fs) ==
    [n \in readdir(fs, UPLOAD_DIR) |-> fs[validated[UPLOAD_DIR][n].path]]

\* Store.getProcessedResults: one result per image file of the processed
\* directory, its caption "" when the text file is missing
getProcessedResults(fs) ==
    { [filename |-> n,
       caption |-> LET t == validated[PROCESSED_DIR][txtNameOf[n]].path
                   IN IF t \in DOMAIN fs THEN fs[t] ELSE "",
       imageData |-> fs[validated[PROCESSED_DIR][n].path]]
      : n \in { m \in readdir(fs, PROCESSED_DIR) : IsImageName(m) } }

----------------------------------------------------------------------------
(* What the Store's callers pass in *)

\* the names the callers that contend for the lock pass: one that is stored
\* and one on which validatePath throws
LockNames == { ImgName, <<"a", "/", ".", ".">> }

\* sequences of at most n names out of names
RECURSIVE NameSeqs(_, _)
NameSeqs(names, n) ==
    IF n = 0 THEN { <<>> }
    ELSE LET shorter == NameSeqs(names, n - 1) IN
         shorter \cup { Append(q, f) : q \in { r \in shorter : Len(r) = n - 1 },
                                       f \in names }

DistinctNames(q) == \A i, j \in 1..Len(q) : i # j => q[i] # q[j]

\* a Map<string, Buffer> of at most MaxImages entries, in insertion order
ImageMaps(names) ==
    { [i \in 1..Len(q) |-> [name |-> q[i], data |-> "img"]]
      : q \in { r \in NameSeqs(names, MaxImages) : DistinctNames(r) } }

\* a ProcessedResult[] of at most MaxImages entries
ResultLists(names) ==
    { [i \in 1..Len(q) |-> [filename |-> q[i], caption |-> "cap", imageData |-> "img"]]
      : q \in NameSeqs(names, MaxImages) }

OpKinds == { "setUploadedImages", "setProcessedResults", "clearAll", "cleanupOldFiles" }

\* the arguments of a mutating operation; for cleanupOldFiles, the files
\* that are older than the retention window when it runs (none, or all)
OpArgs(kind, maps, lists, fs) ==
    IF kind = "setUploadedImages" THEN maps
    ELSE IF kind = "setProcessedResults" THEN lists
    ELSE IF kind = "cleanupOldFiles" THEN { {}, DOMAIN fs }
    ELSE { <<>> }

\* what the callers that contend for the lock pass: one entry each
LockMaps == { <<[name |-> n, data |-> "img"]>> : n \in LockNames }

LockLists == { <<[filename |-> n, caption |-> "cap", imageData |-> "img"]>> : n \in LockNames }

\* what a single caller passes when the paths are looked at
PathMaps == ImageMaps(StoreNames)

PathLists == ResultLists(StoreNames)

\* the file names an operation was given
GivenNames(kind, arg) ==
    IF kind = "setUploadedImages" THEN { arg[i].name : i \in 1..Len(arg) }
    ELSE IF kind = "setProcessedResults" THEN { arg[i].filename : i \in 1..Len(arg) }
    ELSE {}

\* where an operation is meant to work
BaseDirs(kind) ==
    IF kind \in { "setUploadedImages", "getUploadedImages" } THEN { UPLOAD_DIR }
    ELSE IF kind \in { "setProcessedResults", "getProcessedResults" } THEN { PROCESSED_DIR }
    ELSE IF kind \in { "addLog", "getLogs", "clearLogs" } THEN { LOGS_FILE }
    ELSE { UPLOAD_DIR, PROCESSED_DIR, LOGS_FILE }

\* the try block of a mutating operation, run on the current files
RunOp(kind, arg, fs) ==
    IF kind = "setUploadedImages" THEN setUploadedImages(fs, arg)
    ELSE IF kind = "setProcessedResults" THEN setProcessedResults(fs, arg)
    ELSE IF kind = "clearAll" THEN clearAll(fs)
    ELSE cleanupOldFiles(fs, arg)

NoOp == [kind |-> "none", names |-> {}, accessed |-> {}, outcome |-> "ok"]

----------------------------------------------------------------------------
(* Store.acquireLock and the mutating operations, one action per turn of   *)
(* the event loop.  pc[p]:                                                 *)
(*   idle      has not called yet (a caller is one call of an operation)   *)
(*   waiting   suspended at "await this.lockPromise", the promise pending  *)
(*   ready     the awaited promise is resolved, the continuation is queued *)
(*   acquired  acquireLock has returned the release function; the caller   *)
(*             holds the lock until it calls release                       *)
(*   returned / threw   the operation has completed                        *)

\* while (this.lockPromise !== null): the test made when a waiter wakes up
WaitLoopExitsIfOnce(lp) == TRUE

WaitLoopExits(lp) == lp = NoPromise

\* finally { release(); }: whether release runs for this outcome of the try block
ReleasesOnSuccessOnly(outcome) == outcome = "ok"

Releases(outcome) == TRUE

\* this.lockPromise = new Promise(...); return the release function
Acquire(p) ==
    /\ lockPromise' = p
    /\ pc' = [pc EXCEPT ![p] = "acquired"]
    /\ awaiting' = [awaiting EXCEPT ![p] = NoPromise]

\* await this.lockPromise
Suspend(p) ==
    /\ pc' = [pc EXCEPT ![p] = "waiting"]
    /\ awaiting' = [awaiting EXCEPT ![p] = lockPromise]
    /\ UNCHANGED lockPromise

\* a caller starts a mutating operation, "const release = await this.acquireLock()":
\* acquireLock runs to its first suspension, or to its return when the lock is free
Call(p, kind) ==
    /\ pc[p] = "idle"
    /\ opKind' = [opKind EXCEPT ![p] = kind]
    /\ IF lockPromise = NoPromise THEN Acquire(p) ELSE Suspend(p)
    /\ UNCHANGED <<files, lastOp, classifyVars, captionVars, pipeVars, requestVars, formatVars, limitVars, ioVars>>

\* a waiter's continuation runs: the loop tests this.lockPromise again
Resume(p) ==
    /\ pc[p] = "ready"
    /\ IF WaitLoopExits(lockPromise) THEN Acquire(p) ELSE Suspend(p)
    /\ UNCHANGED <<files, opKind, lastOp, classifyVars, captionVars, pipeVars, requestVars, formatVars, limitVars, ioVars>>

\* a release that would queue the continuation of one of the callers that
\* await p's promise, and leave the others suspended
ReleaseWakingOne(p, done) ==
    /\ lockPromise' = NoPromise
    /\ pc' = [q \in Callers |->
                IF q = p THEN done
                ELSE IF /\ pc[q] = "waiting" /\ awaiting[q] = p
                        /\ \A o \in Callers : pc[o] = "waiting" /\ awaiting[o] = p => q <= o
                THEN "ready"
                ELSE pc[q]]

\* the release function: this.lockPromise = null; releaseLock()
\* (every caller awaiting p's promise has its continuation queued)
Release(p, done) ==
    /\ lockPromise' = NoPromise
    /\ pc' = [q \in Callers |->
                IF q = p THEN done
                ELSE IF pc[q] = "waiting" /\ awaiting[q] = p THEN "ready"
                ELSE pc[q]]

\* how the operation's promise settles
Completion(outcome) == IF outcome = "ok" THEN "returned" ELSE "threw"

\* the holder's continuation runs: the try block (synchronous filesystem
\* calls, on arguments it reads only now), then the finally block
CriticalSection(p, maps, lists) ==
    /\ pc[p] = "acquired"
    /\ \E arg \in OpArgs(opKind[p], maps, lists, files), readdirFails \in BOOLEAN :
         \E st \in { IF readdirFails
                     THEN [StartOf(files) EXCEPT !.outcome = "io"]
                     ELSE RunOp(opKind[p], arg, files) } :
            /\ files' = st.fs
            /\ lastOp' = [kind |-> opKind[p], names |-> GivenNames(opKind[p], arg),
                          accessed |-> st.accessed, outcome |-> st.outcome]
            /\ IF Releases(st.outcome)
               THEN Release(p, Completion(st.outcome))
               ELSE /\ pc' = [pc EXCEPT ![p] = Completion(st.outcome)]
                    /\ UNCHANGED lockPromise
    /\ opKind' = [opKind EXCEPT ![p] = "none"]
    /\ UNCHANGED <<awaiting, classifyVars, captionVars, pipeVars, requestVars, formatVars, limitVars, ioVars>>

StoreInit ==
    /\ files = << >>
    /\ lockPromise = NoPromise
    /\ pc = [p \in Callers |-> "idle"]
    /\ awaiting = [p \in Callers |-> NoPromise]
    /\ opKind = [p \in Callers |-> "none"]
    /\ lastOp = NoOp

\* the parts of the state a specification leaves alone
NoError == [code |-> "none", statusCode |-> 0, about |-> ""]

ClassifyIdle == errorMessage = {} /\ context = "" /\ appError = NoError

NoResult == [kind |-> "none", caption |-> <<>>, message |-> {}]

NoCall == [phase |-> "idle", via |-> "", provider |-> "", keyword |-> <<>>, hints |-> <<>>,
           modelName |-> {}, status |-> "", timer |-> "none", request |-> "none",
           extracted |-> "none", result |-> NoResult]

CaptionIdle == gen = NoCall

NoBatch == [stage |-> "idle", sent |-> 0, size |-> 0, todo |-> <<>>, idx |-> 1,
            results |-> <<>>, successCount |-> 0, errorCount |-> 0,
            prefix |-> <<>>, keyword |-> <<>>, provider |-> "", keySet |-> FALSE]

PipeIdle == batch = NoBatch /\ archive = <<>>

NRequests == 2

\* the POST /api/process requests that are served side by side
Requests == 1..NRequests

NoUpload == [route |-> "none", sent |-> <<>>, status |-> 0, code |-> "",
             accepted |-> <<>>, keys |-> <<>>, stored |-> {}]

\* a request of POST /api/process that has not arrived
\* (read: the images store.getUploadedImages() returned to it; order: the
\* place of its call of store.setProcessedResults among those of all requests)
NoRun == [pc |-> "idle", status |-> 0, cause |-> "", loop |-> NoBatch,
          awaited |-> 0, inflight |-> {}, waited |-> <<>>, read |-> << >>, order |-> 0]

\* process.env with both credentials set, and the rate limiter's count of
\* the client's requests in the running window
Configured == [GEMINI_API_KEY |-> "set", OPENAI_API_KEY |-> "set", count |-> 0]

RequestIdle == upload = NoUpload /\ runs = [r \in Requests |-> NoRun] /\ env = Configured

NoBuilt == [phase |-> "idle", keyword |-> <<>>, rawDesc |-> <<>>, negativeHints |-> <<>>,
            checkpoint |-> "", once |-> <<>>, twice |-> <<>>]

NoPrompt == [phase |-> "idle", via |-> "", captionLength |-> "", captionGuidance |-> <<>>,
             negativeHints |-> <<>>, strictFocus |-> FALSE, parts |-> <<>>, text |-> <<>>]

FormatIdle == built = NoBuilt /\ prompt = NoPrompt

\* the result of no check
NoCheck == [identifier |-> <<>>, preset |-> "", now |-> 0, found |-> FALSE, count |-> 0,
            resetTime |-> 0, allowed |-> FALSE, remaining |-> 0, status |-> 0,
            countAfter |-> 0, resetAfter |-> 0]

\* the RateLimiter after construction: private store = new Map()
NoLimiter == [store |-> << >>, now |-> 0, swept |-> FALSE, made |-> 0,
              allowedIn |-> << >>, last |-> NoCheck]

LimitIdle == limiter = NoLimiter

\* the two collections, empty
NoCollections == [processed |-> {}, uploaded |-> << >>]

\* no read made
NoRead == [made |-> FALSE, during |-> "", seen |-> NoCollections]

\* no mutating operation called
NoIo == [pc |-> "idle", kind |-> "none", arg |-> <<>>, before |-> NoCollections,
         whole |-> NoCollections, leaves |-> << >>,
         calls |-> <<>>, outcome |-> "ok", running |-> FALSE, read |-> NoRead]

IoIdle == io = NoIo

Init == StoreInit /\ ClassifyIdle /\ CaptionIdle /\ PipeIdle /\ RequestIdle /\ FormatIdle /\ LimitIdle /\ IoIdle

\* concurrent callers of the mutating operations
Next ==
    \/ \E p \in Callers, kind \in OpKinds : Call(p, kind)
    \/ \E p \in Callers : Resume(p)
    \/ \E p \in Callers : CriticalSection(p, LockMaps, LockLists)

Spec == Init /\ [][Next]_vars

\* the event loop runs every continuation that is queued: that of a caller
\* whose awaited promise has been resolved, and that of a caller to whom
\* acquireLock has returned
SpecLive ==
    /\ Spec
    /\ \A p \in Callers : WF_vars(Resume(p))
    /\ \A p \in Callers : WF_vars(CriticalSection(p, LockMaps, LockLists))

\* C28: every caller suspended in acquireLock is given the lock in the end
\* and its operation ends, and no caller stays suspended on a promise other
\* than that of the present holder: a release wakes every caller that waits
\* for it, so none is left blocked while the lock is free
C28_LockLiveness ==
    /\ \A p \in Callers : (pc[p] \in { "waiting", "ready" }) ~> (pc[p] = "acquired")
    /\ \A p \in Callers : (pc[p] = "acquired") ~> (pc[p] \in { "returned", "threw" })
    /\ [](\A q \in Callers :
            pc[q] = "waiting" => lockPromise # NoPromise /\ awaiting[q] = lockPromise)

\* a holder has released while two callers waited for it: one of them holds
\* the lock now, the continuation of the other is queued and will find the
\* lock taken
C28_Witness ==
    \E a, b, c \in Callers :
       /\ pc[a] \in { "returned", "threw" }
       /\ lockPromise = b /\ pc[b] = "acquired"
       /\ pc[c] = "ready" /\ awaiting[c] = a

----------------------------------------------------------------------------
(* The lock *)

\* the callers between acquireLock returning and release
Holders == { p \in Callers : pc[p] = "acquired" }

\* C1: at most one caller holds the lock at any time, whatever the
\* interleaving of the callers of the mutating operations
C1_MutualExclusion == Cardinality(Holders) <= 1

\* a holder, a waiter on its promise and a caller woken by an earlier release
C1_Witness ==
    \E p, q, r \in Callers :
        /\ pc[p] = "acquired" /\ pc[q] = "waiting" /\ awaiting[q] = p
        /\ pc[r] \in { "returned", "threw" }


\* C2: a mutating operation that has returned or thrown no longer holds the
\* lock: the lock promise is never that of a completed operation, the lock is
\* held only by a caller inside its operation, and nobody waits on the promise
\* of a completed operation, so that a later call can acquire the lock
C2_ReleasedOnEveryExit ==
    /\ \A p \in Callers : pc[p] \in { "returned", "threw" } => lockPromise # p
    /\ lockPromise # NoPromise => pc[lockPromise] = "acquired"
    /\ \A q \in Callers : pc[q] = "waiting" => pc[awaiting[q]] = "acquired"

\* an operation threw inside its critical section (validatePath or the
\* filesystem) and a later caller holds the lock
C2_Witness ==
    \E p, q \in Callers :
        /\ pc[p] = "threw" /\ lastOp.outcome = "traversal"
        /\ pc[q] = "acquired" /\ lockPromise = q

----------------------------------------------------------------------------
(* The Store's operations that take no lock *)

MaxLogLines == 2

\* Store.addLog: the line is written to a new log file or appended
addLog(fs, line) ==
    Put(fs, LOGS_FILE, IF LOGS_FILE \in DOMAIN fs THEN Append(fs[LOGS_FILE], line)
                       ELSE <<line>>)

\* a log that is left as it is
clearLogsKeeping(fs) == fs

\* Store.clearLogs
clearLogs(fs) == Remove(fs, {LOGS_FILE})

\* Store.getLogs
getLogs(fs) == IF LOGS_FILE \in DOMAIN fs THEN fs[LOGS_FILE] ELSE <<>>

AddLog ==
    /\ Len(getLogs(files)) < MaxLogLines
    /\ files' = addLog(files, "line")
    /\ lastOp' = [kind |-> "addLog", names |-> {}, accessed |-> {LOGS_FILE},
                  outcome |-> "ok"]
    /\ UNCHANGED <<lockPromise, pc, awaiting, opKind, classifyVars, captionVars, pipeVars, requestVars, formatVars, limitVars, ioVars>>

ClearLogs ==
    /\ files' = clearLogs(files)
    /\ lastOp' = [kind |-> "clearLogs", names |-> {}, accessed |-> {LOGS_FILE},
                  outcome |-> "ok"]
    /\ UNCHANGED <<lockPromise, pc, awaiting, opKind, classifyVars, captionVars, pipeVars, requestVars, formatVars, limitVars, ioVars>>

\* the paths Store.getUploadedImages / Store.getProcessedResults touch: the
\* directory listed, every file read, every caption file looked for
PathsRead(kind, fs) ==
    IF kind = "getUploadedImages"
    THEN {UPLOAD_DIR} \cup { validated[UPLOAD_DIR][n].path : n \in readdir(fs, UPLOAD_DIR) }
    ELSE {PROCESSED_DIR}
         \cup UNION { { validated[PROCESSED_DIR][n].path,
                        validated[PROCESSED_DIR][txtNameOf[n]].path }
                      : n \in { m \in readdir(fs, PROCESSED_DIR) : IsImageName(m) } }

GetAll(kind) ==
    /\ lastOp' = [kind |-> kind, names |-> {}, accessed |-> PathsRead(kind, files),
                  outcome |-> "ok"]
    /\ UNCHANGED <<files, lockPromise, pc, awaiting, opKind, classifyVars, captionVars, pipeVars, requestVars, formatVars, limitVars, ioVars>>

\* the caller's request is over; the next one may call the Store
NextRequest(p) ==
    /\ pc[p] \in { "returned", "threw" }
    /\ pc' = [pc EXCEPT ![p] = "idle"]
    /\ UNCHANGED <<files, lockPromise, awaiting, opKind, lastOp, classifyVars, captionVars, pipeVars, requestVars, formatVars, limitVars, ioVars>>

\* one caller at a time, passing every kind of file name
NextPaths ==
    \/ \E kind \in OpKinds : Call(1, kind)
    \/ CriticalSection(1, PathMaps, PathLists)
    \/ NextRequest(1)
    \/ AddLog
    \/ ClearLogs
    \/ GetAll("getUploadedImages")
    \/ GetAll("getProcessedResults")

SpecPaths == Init /\ [][NextPaths]_vars

----------------------------------------------------------------------------
(* The Store that joins the names it is given to its directories as they   *)
(* are: no lock, no validatePath, nothing caught                           *)

\* files.forEach((file) => fs.unlinkSync(path.join(dir, file))) over readdirSync(dir)
ClearDirUnchecked(st, dir) ==
    unlinkAll([st EXCEPT !.accessed = @ \cup {dir}],
              { joined[dir][n] : n \in readdir(st.fs, dir) })

RECURSIVE SaveUploadsUnchecked(_, _)
\* for (const [filename, buffer] of images.entries()) writeFileSync(path.join(UPLOAD_DIR, filename))
SaveUploadsUnchecked(images, st) ==
    IF images = <<>> \/ st.outcome # "ok" THEN st
    ELSE SaveUploadsUnchecked(Tail(images),
             writeFileSync(st, joined[UPLOAD_DIR][Head(images).name], Head(images).data))

setUploadedImagesUnchecked(fs, images) ==
    SaveUploadsUnchecked(images, ClearDirUnchecked(StartOf(fs), UPLOAD_DIR))

RECURSIVE SaveResultsUnchecked(_, _)
\* for (const result of results) { writeFileSync(image); writeFileSync(caption) }
SaveResultsUnchecked(results, st) ==
    IF results = <<>> \/ st.outcome # "ok" THEN st
    ELSE LET r == Head(results) IN
         SaveResultsUnchecked(Tail(results),
             writeFileSync(writeFileSync(st, joined[PROCESSED_DIR][r.filename], r.imageData),
                           joined[PROCESSED_DIR][txtNameOf[r.filename]], r.caption))

setProcessedResultsUnchecked(fs, results) ==
    SaveResultsUnchecked(results, ClearDirUnchecked(StartOf(fs), PROCESSED_DIR))

\* setUploadedImages / setProcessedResults of this Store: the call runs to
\* its end, or to the filesystem call that throws, in one turn
SetUnchecked(kind) ==
    /\ \E arg \in OpArgs(kind, PathMaps, PathLists, files), readdirFails \in BOOLEAN :
         \E st \in { IF readdirFails THEN [StartOf(files) EXCEPT !.outcome = "io"]
                     ELSE IF kind = "setUploadedImages"
                          THEN setUploadedImagesUnchecked(files, arg)
                          ELSE setProcessedResultsUnchecked(files, arg) } :
            /\ files' = st.fs
            /\ lastOp' = [kind |-> kind, names |-> GivenNames(kind, arg),
                          accessed |-> st.accessed, outcome |-> st.outcome]
    /\ UNCHANGED <<lockPromise, pc, awaiting, opKind, classifyVars, captionVars, pipeVars, requestVars, formatVars, limitVars, ioVars>>

\* getUploadedImages / getProcessedResults of this Store
PathsReadUnchecked(kind, fs) ==
    IF kind = "getUploadedImages"
    THEN {UPLOAD_DIR} \cup { joined[UPLOAD_DIR][n] : n \in readdir(fs, UPLOAD_DIR) }
    ELSE {PROCESSED_DIR}
         \cup UNION { { joined[PROCESSED_DIR][n], joined[PROCESSED_DIR][txtNameOf[n]] }
                      : n \in { m \in readdir(fs, PROCESSED_DIR) : IsImageName(m) } }

GetAllUnchecked(kind) ==
    /\ lastOp' = [kind |-> kind, names |-> {}, accessed |-> PathsReadUnchecked(kind, files),
                  outcome |-> "ok"]
    /\ UNCHANGED <<files, lockPromise, pc, awaiting, opKind, classifyVars, captionVars, pipeVars, requestVars, formatVars, limitVars, ioVars>>

NextUnchecked ==
    \/ SetUnchecked("setUploadedImages")
    \/ SetUnchecked("setProcessedResults")
    \/ GetAllUnchecked("getUploadedImages")
    \/ GetAllUnchecked("getProcessedResults")
    \/ AddLog
    \/ ClearLogs

SpecUnchecked == Init /\ [][NextUnchecked]_vars

----------------------------------------------------------------------------
(* File names and paths *)

\* the file names that would leave the base directory if joined to it as they are
LeavesBase(baseDir, filename) == ~Inside(baseDir, pathJoin(baseDir, filename))

LeavingNames == { n \in StoreNames : \E d \in StoreDirs : LeavesBase(d, n) }

\* the names whose last component is ".."
DotDotNames == { n \in StoreNames : pathBasename(n) = <<".", ".">> }

InsideBases == { <<b, p>> \in (StoreDirs \cup {LOGS_FILE}) \X Paths : Inside(b, p) }

WriteKinds == { "setUploadedImages", "setProcessedResults" }

\* the paths an operation makes of the file name n it is given
PathsMadeOf(kind, n) ==
    IF kind = "setUploadedImages" THEN { validated[UPLOAD_DIR][n].path }
    ELSE { validated[PROCESSED_DIR][n].path, validated[PROCESSED_DIR][txtNameOf[n]].path }

\* C6 as stated: an operation given a file name with parent-directory
\* components that lead out of the base directory ("../../etc/passwd") throws
\* the directory-traversal error and makes no filesystem access for that name
\* (an operation that a filesystem failure ended first is left aside)
C6_TraversalErrorRaised ==
    \A n \in lastOp.names \cap LeavingNames :
        (lastOp.kind \in WriteKinds /\ lastOp.outcome # "io")
        => /\ lastOp.outcome = "traversal"
           /\ PathsMadeOf(lastOp.kind, n) \cap lastOp.accessed = {}

\* C6 (amended): validatePath keeps only the last component of a file name.
\* The directory-traversal error is thrown only for a name whose last
\* component is "..", a write given such a name never completes, and the path
\* made of such a name is never accessed; a write that completes, given
\* "../../etc/passwd", has written the file passwd of its base directory
C6_LastComponentKept ==
    lastOp.kind \in WriteKinds =>
        /\ lastOp.outcome = "traversal" => lastOp.names \cap DotDotNames # {}
        /\ lastOp.names \cap DotDotNames # {} => lastOp.outcome # "ok"
        /\ \A n \in lastOp.names \cap DotDotNames :
               PathsMadeOf(lastOp.kind, n) \cap lastOp.accessed = {}
        /\ (Passwd \in lastOp.names /\ lastOp.outcome = "ok")
           => \E d \in BaseDirs(lastOp.kind) :
                 /\ pathJoin(d, <<"p", "a", "s", "s", "w", "d">>) \in lastOp.accessed
                 /\ pathJoin(d, <<"p", "a", "s", "s", "w", "d">>) \in DOMAIN files

\* setUploadedImages given "../../etc/passwd" has completed and the uploads
\* directory holds the file passwd
C6_Witness ==
    /\ lastOp.kind = "setUploadedImages"
    /\ Passwd \in lastOp.names
    /\ lastOp.outcome = "ok"
    /\ pathJoin(UPLOAD_DIR, <<"p", "a", "s", "s", "w", "d">>) \in DOMAIN files

\* C7: every path the last operation read, wrote or deleted lies inside the
\* directory the operation works in (uploads, processed) or is the log file
C7_TouchedInsideBase ==
    \A a \in lastOp.accessed : \E b \in BaseDirs(lastOp.kind) : <<b, a>> \in InsideBases

----------------------------------------------------------------------------
(* ErrorHandler.fromException.  A message is the set of the words that    *)
(* occur in it; a word is <<text, case>>, text in lower case and case     *)
(* "lower" (the word is written in lower case) or "upper" (it is not).    *)
(* Digits have one case.                                                   *)

MaxWords == 3

\* the substrings fromException looks for
CaseTriggers ==
    { "api key", "api_key", "not set", "missing", "invalid", "unauthorized",
      "placeholder", "timeout", "timed out", "rate limit", "prohibited_content",
      "safety", "blocked", "filtered", "network", "enotfound", "econnrefused",
      "fetch failed", "service unavailable", "model not found" }

DigitTriggers == { "401", "429", "503", "404" }

\* the words of the messages: every trigger in lower case, some of them in
\* upper case as well, the error codes of Node.js, and words that trigger nothing
Words ==
    { <<t, "lower">> : t \in CaseTriggers \cup DigitTriggers }
    \cup { <<t, "upper">> : t \in { "api key", "rate limit", "timeout", "safety",
                                     "prohibited_content", "network", "etimedout",
                                     "econnaborted" } }
    \cup { <<"etimedout", "lower">>, <<"econnaborted", "lower">>, <<"500", "lower">>,
           <<"oops", "lower">> }

RECURSIVE WordSets(_)
\* the messages of at most k words
WordSets(k) ==
    IF k = 0 THEN { {} }
    ELSE LET fewer == WordSets(k - 1) IN
         fewer \cup { m \cup {w} : m \in { f \in fewer : Cardinality(f) = k - 1 }, w \in Words }

Messages == WordSets(MaxWords)

Contexts == { "", "Gemini API" }

\* String.prototype.toLowerCase
toLowerCase(message) == { <<w[1], "lower">> : w \in message }

\* message.includes(text), for a text in lower case and for one in upper case
includes(message, text) == <<text, "lower">> \in message

includesUpper(message, text) == <<text, "upper">> \in message

\* ErrorHandler.createError; about is the context where the details or the
\* suggestion of the error quote it
createError(code, about, statusCode) ==
    [code |-> code, statusCode |-> statusCode, about |-> about]

\* the test of the rate-limit rule made on the message as it is written
rateLimitRuleAsWritten(message, lowerMessage) ==
    includes(message, "429") \/ includes(message, "rate limit")

\* lowerMessage.includes("429") || lowerMessage.includes("rate limit")
rateLimitRule(message, lowerMessage) ==
    includes(lowerMessage, "429") \/ includes(lowerMessage, "rate limit")

\* lowerMessage.includes("api key") || lowerMessage.includes("api_key")
apiKeyRule(lowerMessage) ==
    includes(lowerMessage, "api key") \/ includes(lowerMessage, "api_key")

timeoutRule(message, lowerMessage) ==
    \/ includes(lowerMessage, "timeout")
    \/ includes(lowerMessage, "timed out")
    \/ includesUpper(message, "etimedout")
    \/ includesUpper(message, "econnaborted")

contentRule(lowerMessage) ==
    \/ includes(lowerMessage, "prohibited_content")
    \/ includes(lowerMessage, "safety")
    \/ includes(lowerMessage, "blocked")
    \/ includes(lowerMessage, "filtered")

networkRule(lowerMessage) ==
    \/ includes(lowerMessage, "network")
    \/ includes(lowerMessage, "enotfound")
    \/ includes(lowerMessage, "econnrefused")
    \/ includes(lowerMessage, "fetch failed")

\* the rules that follow the credential and the timeout rules
laterRules(message, lowerMessage, where) ==
    IF rateLimitRule(message, lowerMessage)
    THEN createError("RATE_LIMIT_EXCEEDED", "", 429)
    ELSE IF contentRule(lowerMessage)
    THEN createError("CONTENT_FILTERED", "", 400)
    ELSE IF networkRule(lowerMessage)
    THEN createError("NETWORK_ERROR", "", 503)
    ELSE IF includes(lowerMessage, "503") \/ includes(lowerMessage, "service unavailable")
    THEN createError("PROVIDER_UNAVAILABLE", "", 503)
    ELSE IF includes(lowerMessage, "404") \/ includes(lowerMessage, "model not found")
    THEN createError("MODEL_NOT_FOUND", "", 404)
    ELSE createError("UNKNOWN_ERROR", where, 500)

\* fromException with the rate-limit rule tried before the timeout rule
fromExceptionRateLimitFirst(message, where) ==
    LET lowerMessage == toLowerCase(message) IN
    IF apiKeyRule(lowerMessage)
       /\ (includes(lowerMessage, "not set") \/ includes(lowerMessage, "missing"))
    THEN createError("API_KEY_MISSING", "", 500)
    ELSE IF apiKeyRule(lowerMessage)
            /\ (\/ includes(lowerMessage, "invalid")
                \/ includes(lowerMessage, "unauthorized")
                \/ includes(message, "401"))
    THEN createError("API_KEY_INVALID", "", 401)
    ELSE IF apiKeyRule(lowerMessage) /\ includes(lowerMessage, "placeholder")
    THEN createError("API_KEY_PLACEHOLDER", "", 500)
    ELSE IF rateLimitRule(message, lowerMessage)
    THEN createError("RATE_LIMIT_EXCEEDED", "", 429)
    ELSE IF timeoutRule(message, lowerMessage)
    THEN createError("REQUEST_TIMEOUT", where, 504)
    ELSE laterRules(message, lowerMessage, where)

\* ErrorHandler.fromException(error, context): the rules in the order of the code
fromException(message, where) ==
    LET lowerMessage == toLowerCase(message) IN
    IF apiKeyRule(lowerMessage)
       /\ (includes(lowerMessage, "not set") \/ includes(lowerMessage, "missing"))
    THEN createError("API_KEY_MISSING", "", 500)
    ELSE IF apiKeyRule(lowerMessage)
            /\ (\/ includes(lowerMessage, "invalid")
                \/ includes(lowerMessage, "unauthorized")
                \/ includes(message, "401"))
    THEN createError("API_KEY_INVALID", "", 401)
    ELSE IF apiKeyRule(lowerMessage) /\ includes(lowerMessage, "placeholder")
    THEN createError("API_KEY_PLACEHOLDER", "", 500)
    ELSE IF timeoutRule(message, lowerMessage)
    THEN createError("REQUEST_TIMEOUT", where, 504)
    ELSE laterRules(message, lowerMessage, where)

\* a caller catches an exception and hands it to the classifier with a context
FromException ==
    /\ appError = NoError
    /\ \E m \in Messages, c \in Contexts :
         /\ errorMessage' = m
         /\ context' = c
         /\ appError' = fromException(m, c)
    /\ UNCHANGED <<storeVars, captionVars, pipeVars, requestVars, formatVars, limitVars, ioVars>>

\* the caller has made its response of the error; nothing of it is kept
Handled ==
    /\ appError # NoError
    /\ errorMessage' = {}
    /\ context' = ""
    /\ appError' = NoError
    /\ UNCHANGED <<storeVars, captionVars, pipeVars, requestVars, formatVars, limitVars, ioVars>>

NextClassify == FromException \/ Handled

SpecClassify == Init /\ [][NextClassify]_vars

\* the message holds the text, in whatever case
Mentions(message, text) == \E c \in { "lower", "upper" } : <<text, c>> \in message

\* the message triggers the rule of this kind
Triggers(message, kind) ==
    LET credential == Mentions(message, "api key") \/ Mentions(message, "api_key") IN
    CASE kind = "API_KEY_MISSING" ->
           credential /\ (Mentions(message, "not set") \/ Mentions(message, "missing"))
      [] kind = "API_KEY_INVALID" ->
           credential /\ (\/ Mentions(message, "invalid")
                          \/ Mentions(message, "unauthorized")
                          \/ Mentions(message, "401"))
      [] kind = "API_KEY_PLACEHOLDER" -> credential /\ Mentions(message, "placeholder")
      [] kind = "REQUEST_TIMEOUT" ->
           \/ Mentions(message, "timeout") \/ Mentions(message, "timed out")
           \/ <<"etimedout", "upper">> \in message
           \/ <<"econnaborted", "upper">> \in message
      [] kind = "RATE_LIMIT_EXCEEDED" ->
           Mentions(message, "429") \/ Mentions(message, "rate limit")
      [] kind = "CONTENT_FILTERED" ->
           \/ Mentions(message, "prohibited_content") \/ Mentions(message, "safety")
           \/ Mentions(message, "blocked") \/ Mentions(message, "filtered")
      [] kind = "NETWORK_ERROR" ->
           \/ Mentions(message, "network") \/ Mentions(message, "enotfound")
           \/ Mentions(message, "econnrefused") \/ Mentions(message, "fetch failed")
      [] kind = "PROVIDER_UNAVAILABLE" ->
           Mentions(message, "503") \/ Mentions(message, "service unavailable")
      [] kind = "MODEL_NOT_FOUND" ->
           Mentions(message, "404") \/ Mentions(message, "model not found")
      [] OTHER -> TRUE

\* the kinds in the order of precedence, the kind of no rule last
Precedence ==
    << "API_KEY_MISSING", "API_KEY_INVALID", "API_KEY_PLACEHOLDER", "REQUEST_TIMEOUT",
       "RATE_LIMIT_EXCEEDED", "CONTENT_FILTERED", "NETWORK_ERROR", "PROVIDER_UNAVAILABLE",
       "MODEL_NOT_FOUND", "UNKNOWN_ERROR" >>

FirstTriggered(message) ==
    Precedence[CHOOSE i \in 1..Len(Precedence) :
                 /\ Triggers(message, Precedence[i])
                 /\ \A j \in 1..(i - 1) : ~Triggers(message, Precedence[j])]

Classified == appError # NoError

\* the kinds of the rules tried before the rate-limit rule
BeforeRateLimit ==
    { "API_KEY_MISSING", "API_KEY_INVALID", "API_KEY_PLACEHOLDER", "REQUEST_TIMEOUT" }

\* C8 as stated: a message that holds "429" or "rate limit", in whatever
\* case, is classified RATE_LIMIT_EXCEEDED whatever else it holds
C8_RateLimitWhateverElse ==
    (Classified /\ Triggers(errorMessage, "RATE_LIMIT_EXCEEDED"))
    => appError.code = "RATE_LIMIT_EXCEEDED"

\* C8 (amended): a message that holds "429" or "rate limit", in whatever
\* case, is classified RATE_LIMIT_EXCEEDED (status 429) exactly when it
\* triggers none of the rules tried before: credential missing, credential
\* invalid, credential placeholder, timeout; when it triggers one of them
\* its kind is the first of them that it triggers
C8_RateLimitUnlessEarlierRule ==
    (Classified /\ Triggers(errorMessage, "RATE_LIMIT_EXCEEDED"))
    => IF \E k \in BeforeRateLimit : Triggers(errorMessage, k)
       THEN appError.code \in BeforeRateLimit /\ appError.code = FirstTriggered(errorMessage)
       ELSE appError.code = "RATE_LIMIT_EXCEEDED" /\ appError.statusCode = 429

\* a message with "Rate Limit" not in lower case and the trigger of a later
\* rule is classified RATE_LIMIT_EXCEEDED
C8_Witness ==
    /\ <<"rate limit", "upper">> \in errorMessage
    /\ <<"rate limit", "lower">> \notin errorMessage
    /\ <<"429", "lower">> \notin errorMessage
    /\ Triggers(errorMessage, "NETWORK_ERROR")
    /\ appError.code = "RATE_LIMIT_EXCEEDED"

\* C9: the error returned has the kind of the first rule, in the order of
\* precedence, that the message triggers, UNKNOWN_ERROR when it triggers
\* none, and its kind and status code are those returned for the same
\* message under any other context
C9_FirstRuleWins ==
    Classified =>
        /\ appError.code = FirstTriggered(errorMessage)
        /\ \A c \in Contexts :
              /\ fromException(errorMessage, c).code = appError.code
              /\ fromException(errorMessage, c).statusCode = appError.statusCode

\* a message that triggers three rules (credential placeholder, timeout,
\* rate limit) is given the kind of the first of them, under a context
C9_Witness ==
    /\ context # ""
    /\ Triggers(errorMessage, "API_KEY_PLACEHOLDER")
    /\ Triggers(errorMessage, "RATE_LIMIT_EXCEEDED")
    /\ ~Triggers(errorMessage, "API_KEY_MISSING")
    /\ ~Triggers(errorMessage, "API_KEY_INVALID")
    /\ appError.code = "API_KEY_PLACEHOLDER"

----------------------------------------------------------------------------
(* The caption generators.  A text is a sequence of pieces: single         *)
(* characters and whole phrases.  gen is the call in progress:             *)
(*   phase    idle, awaiting (the provider call is under the timer),       *)
(*            reading (fetch has resolved, the body is awaited), done      *)
(*   timer    none, armed, cleared, fired                                  *)
(*   request  none, inflight, settled, aborted                             *)
(*   result   what the caller gets: a caption, or the error raised to it   *)

API_TIMEOUT_MS == 30000

Blank == { " " }

RECURSIVE trimStart(_)
trimStart(t) == IF t # <<>> /\ Head(t) \in Blank THEN trimStart(Tail(t)) ELSE t

RECURSIVE trimEnd(_)
trimEnd(t) ==
    IF t # <<>> /\ t[Len(t)] \in Blank THEN trimEnd(SubSeq(t, 1, Len(t) - 1)) ELSE t

\* String.prototype.trim
trim(t) == trimEnd(trimStart(t))

RECURSIVE stripCommas(_)
\* replace(/[,;]+$/, "")
stripCommas(t) ==
    IF t # <<>> /\ t[Len(t)] \in { ",", ";" } THEN stripCommas(SubSeq(t, 1, Len(t) - 1)) ELSE t

\* buildCaption(keyword, rawDesc, checkpoint, negativeHints): every
\* checkpoint gives the same format
buildCaption(keyword, rawDesc, negativeHints) ==
    LET coreSubject == trim(keyword)
        stripped == stripCommas(trim(rawDesc))
        desc == IF stripped # <<>> /\ stripped[Len(stripped)] \notin { ".", "!", "?" }
                THEN Append(stripped, ".") ELSE stripped
        neg == IF negativeHints # <<>>
               THEN <<" ", "(neg:", " ">> \o negativeHints \o <<")">> ELSE <<>>
    IN trim(coreSubject \o <<",", " ">> \o desc \o neg)

\* `${options.keyword}, ${text}`
fallback(keyword, text) == keyword \o <<",", " ">> \o text

TimedOutText ==
    << "request timed out after ", ToString(API_TIMEOUT_MS \div 1000), "s" >>

UnavailableText == << "image description unavailable" >>

\* the catch block of generateCaption (Gemini)
captionOfErrorGemini(code, keyword) ==
    IF code = "CONTENT_FILTERED" THEN fallback(keyword, << "content filtered by safety settings" >>)
    ELSE IF code = "RATE_LIMIT_EXCEEDED"
    THEN fallback(keyword, << "rate limit exceeded, please retry" >>)
    ELSE IF code = "REQUEST_TIMEOUT" THEN fallback(keyword, TimedOutText)
    ELSE IF code = "NETWORK_ERROR" THEN fallback(keyword, << "network error, check connection" >>)
    ELSE IF code = "API_KEY_INVALID"
    THEN fallback(keyword, << "API key invalid or unauthorized" >>)
    ELSE fallback(keyword, UnavailableText)

\* the catch block of generateCaptionOpenAI
captionOfErrorOpenAI(code, keyword) ==
    IF code = "RATE_LIMIT_EXCEEDED"
    THEN fallback(keyword, << "rate limit exceeded, please retry" >>)
    ELSE IF code = "REQUEST_TIMEOUT" THEN fallback(keyword, TimedOutText)
    ELSE IF code = "NETWORK_ERROR" THEN fallback(keyword, << "network error, check connection" >>)
    ELSE IF code = "API_KEY_INVALID"
    THEN fallback(keyword, << "API key invalid or unauthorized" >>)
    ELSE IF code = "API_KEY_MISSING" THEN fallback(keyword, << "API key not configured" >>)
    ELSE IF code = "CONTENT_FILTERED"
    THEN fallback(keyword, << "content filtered by safety settings" >>)
    ELSE IF code = "PROVIDER_UNAVAILABLE"
    THEN fallback(keyword, << "provider temporarily unavailable" >>)
    ELSE fallback(keyword, UnavailableText)

Returned(caption) == [kind |-> "caption", caption |-> caption, message |-> {}]

Raised(message) == [kind |-> "raised", caption |-> <<>>, message |-> message]

\* catch (error) of generateCaption: the error is classified, a caption returned
caughtGemini(message, keyword) ==
    Returned(captionOfErrorGemini(fromException(message, "Gemini API").code, keyword))

caughtOpenAI(message, keyword) ==
    Returned(captionOfErrorOpenAI(fromException(message, "OpenAI API").code, keyword))

\* reject(new Error(`TIMEOUT: ${errorMessage}`)) with
\* `Gemini API request for model ${modelName}`
timeoutError(modelName) == { <<"timeout", "upper">> } \cup modelName

\* the rethrow of withAbortSignal's catch block without the AbortError test
abortErrorRethrown(name, message) == message

\* catch (error) of withAbortSignal: an AbortError becomes
\* 'TIMEOUT: Request aborted due to timeout'
abortError(name, message) ==
    IF name = "AbortError"
    THEN { <<"timeout", "upper">>, <<"timeout", "lower">> }
    ELSE message

\* the message of the DOMException fetch rejects with when its signal aborts
AbortedMessage == { <<"this operation was aborted", "upper">> }

\* LLM_PROVIDERS: the providers known, and whether they need a key
Providers == { "openai", "ollama" }

requiresApiKey(provider) == provider # "ollama"

\* what the callers pass
Keywords == { <<"k">>, <<" ", "k">> }

Hints == { <<>>, <<"blur">> }

ModelNames == { {}, { <<"api key", "lower">>, <<"invalid", "lower">> } }

ProviderNames == Providers \cup { "bogus" }

\* what a provider answers
Descs == { <<"c", "a", "t">>, <<"c", "a", "t", ",">>, <<"c", "a", "t", ".">>,
           <<"unavailable">>, <<" ">>, <<>> }

\* the messages of the errors of a provider, its SDK and fetch
ProviderMessages ==
    { m \in Messages : Cardinality(m) <= 1 }
    \cup { { <<"api key", "upper">>, <<"invalid", "lower">> } }

HttpStatuses == { "401", "404", "429", "500", "503" }

\* generateContent settles: a response whose text() returns or throws, or a rejection
SdkOutcomes ==
    { [kind |-> "text", desc |-> d, message |-> {}] : d \in Descs }
    \cup { [kind |-> k, desc |-> <<>>, message |-> m]
           : k \in { "textThrows", "rejects" }, m \in ProviderMessages }

SafetyDesc == << "A detailed image suitable for LoRA training" >>

\* the rest of generateCaption's try block once generateContent has settled
geminiSettled(outcome, keyword, hints) ==
    IF outcome.kind = "rejects" THEN caughtGemini(outcome.message, keyword)
    ELSE IF outcome.kind = "text"
    THEN Returned(buildCaption(keyword, trim(outcome.desc), hints))
    ELSE IF \/ includesUpper(outcome.message, "prohibited_content")
            \/ includesUpper(outcome.message, "safety")
            \/ includes(outcome.message, "blocked")
    THEN Returned(buildCaption(keyword, SafetyDesc, hints))
    ELSE caughtGemini(outcome.message, keyword)

\* the body of a response: the text of an error, or the JSON of a completion
\* (with its content, or malformed), or a read that fails
Bodies ==
    { [kind |-> "content", desc |-> d, message |-> {}] : d \in Descs }
    \cup { [kind |-> "errorText", desc |-> <<>>, message |-> m] : m \in ProviderMessages }
    \cup { [kind |-> k, desc |-> <<>>, message |-> {}] : k \in { "malformed", "readFails" } }

\* the rest of generateCaptionOpenAI's try block once fetch has resolved
\* with this status and the body has been read
openaiRead(status, body, keyword, hints) ==
    IF body.kind = "readFails" THEN caughtOpenAI({}, keyword)
    ELSE IF status # "200"
    THEN \* `API request failed: ${response.status} - ${errorText}`
         caughtOpenAI({ <<status, "lower">> } \cup body.message, keyword)
    ELSE IF body.kind # "content" THEN caughtOpenAI({}, keyword)
    ELSE IF trim(body.desc) = <<>>
    THEN \* "Empty response from API"
         caughtOpenAI({}, keyword)
    ELSE Returned(buildCaption(keyword, trim(body.desc), hints))

\* what was extracted from the response: rawDesc = response.text().trim(),
\* rawDesc = data.choices[0]?.message?.content?.trim() || ""
extractedOf(desc) == IF trim(desc) = <<>> THEN "empty" ELSE "text"

\* generateCaption is called: the try block runs to
\* "await TimeoutController.withTimeout(model.generateContent(...), ...)"
GenerateCaption ==
    /\ gen.phase = "idle"
    /\ \E k \in Keywords, h \in Hints, m \in ModelNames :
         gen' = [NoCall EXCEPT !.phase = "awaiting", !.via = "gemini", !.provider = "gemini",
                               !.keyword = k, !.hints = h, !.modelName = m,
                               !.timer = "armed", !.request = "inflight"]
    /\ UNCHANGED <<storeVars, classifyVars, pipeVars, requestVars, formatVars, limitVars, ioVars>>

\* generateCaptionOpenAI is called: the two checks made before the try block,
\* then the try block to "await TimeoutController.withAbortSignal(...)"
GenerateCaptionOpenAI ==
    /\ gen.phase = "idle"
    /\ \E k \in Keywords, h \in Hints, m \in ModelNames, p \in ProviderNames,
          keySet \in BOOLEAN :
         LET call == [NoCall EXCEPT !.via = "openai", !.provider = p, !.keyword = k,
                                    !.hints = h, !.modelName = m]
         IN IF p \notin Providers
            THEN \* throw new Error(`Unknown provider: ${provider}`)
                 gen' = [call EXCEPT !.phase = "done",
                                     !.result = Raised({ <<"unknown provider", "upper">> })]
            ELSE IF requiresApiKey(p) /\ ~keySet
            THEN \* throw new Error(`${providerConfig.envVar} is not set`)
                 gen' = [call EXCEPT !.phase = "done",
                                     !.result = Raised({ <<"api_key", "upper">>,
                                                         <<"not set", "lower">> })]
            ELSE gen' = [call EXCEPT !.phase = "awaiting", !.timer = "armed",
                                     !.request = "inflight"]
    /\ UNCHANGED <<storeVars, classifyVars, pipeVars, requestVars, formatVars, limitVars, ioVars>>

\* generateContent settles before the timer fires: withTimeout clears the
\* timer, and the rest of the try block, or the catch block, runs
SdkSettles ==
    /\ gen.phase = "awaiting" /\ gen.via = "gemini" /\ gen.timer = "armed"
    /\ \E o \in SdkOutcomes :
         gen' = [gen EXCEPT !.phase = "done", !.timer = "cleared", !.request = "settled",
                            !.extracted = IF o.kind = "text" THEN extractedOf(o.desc)
                                          ELSE "none",
                            !.result = geminiSettled(o, gen.keyword, gen.hints)]
    /\ UNCHANGED <<storeVars, classifyVars, pipeVars, requestVars, formatVars, limitVars, ioVars>>

\* fetch settles before the timer fires: withAbortSignal clears the timer;
\* a response is then read, a rejection is caught
FetchSettles ==
    /\ gen.phase = "awaiting" /\ gen.via = "openai" /\ gen.timer = "armed"
    /\ \/ \E status \in HttpStatuses \cup { "200" } :
            gen' = [gen EXCEPT !.phase = "reading", !.timer = "cleared", !.status = status]
       \/ \E m \in ProviderMessages :
            gen' = [gen EXCEPT !.phase = "done", !.timer = "cleared", !.request = "settled",
                               !.result = caughtOpenAI(abortError("TypeError", m), gen.keyword)]
    /\ UNCHANGED <<storeVars, classifyVars, pipeVars, requestVars, formatVars, limitVars, ioVars>>

\* response.text() / response.json() settles: no timer runs any more
BodyRead ==
    /\ gen.phase = "reading"
    /\ \E body \in { b \in Bodies : \/ b.kind = "readFails"
                                    \/ gen.status = "200" /\ b.kind \in { "content", "malformed" }
                                    \/ gen.status # "200" /\ b.kind = "errorText" } :
         gen' = [gen EXCEPT !.phase = "done", !.request = "settled",
                            !.extracted = IF gen.status = "200" /\ body.kind = "content"
                                          THEN extractedOf(body.desc) ELSE "none",
                            !.result = openaiRead(gen.status, body, gen.keyword, gen.hints)]
    /\ UNCHANGED <<storeVars, classifyVars, pipeVars, requestVars, formatVars, limitVars, ioVars>>

\* the timer fires first.  withTimeout rejects and leaves the request of the
\* SDK as it is; withAbortSignal aborts the controller, fetch rejects with an
\* AbortError, and the catch block of withAbortSignal throws in its place
TimerFires ==
    /\ gen.phase = "awaiting" /\ gen.timer = "armed"
    /\ IF gen.via = "gemini"
       THEN gen' = [gen EXCEPT !.phase = "done", !.timer = "fired",
                               !.result = caughtGemini(timeoutError(gen.modelName),
                                                       gen.keyword)]
       ELSE gen' = [gen EXCEPT !.phase = "done", !.timer = "fired", !.request = "aborted",
                               !.result = caughtOpenAI(abortError("AbortError", AbortedMessage),
                                                       gen.keyword)]
    /\ UNCHANGED <<storeVars, classifyVars, pipeVars, requestVars, formatVars, limitVars, ioVars>>

\* the request withTimeout gave up on settles: nobody awaits it
LateSettle ==
    /\ gen.phase = "done" /\ gen.request = "inflight"
    /\ gen' = [gen EXCEPT !.request = "settled"]
    /\ UNCHANGED <<storeVars, classifyVars, pipeVars, requestVars, formatVars, limitVars, ioVars>>

\* the caller has the caption, or the error
CallOver ==
    /\ gen.phase = "done"
    /\ gen' = NoCall
    /\ UNCHANGED <<storeVars, classifyVars, pipeVars, requestVars, formatVars, limitVars, ioVars>>

NextCaption ==
    \/ GenerateCaption
    \/ GenerateCaptionOpenAI
    \/ SdkSettles
    \/ FetchSettles
    \/ BodyRead
    \/ TimerFires
    \/ LateSettle
    \/ CallOver

SpecCaption == Init /\ [][NextCaption]_vars

\* the timer of a call fires when its 30 s are over and nothing has cleared
\* it, and a caller takes the result of a call that has ended; the provider
\* is free never to answer and never to finish a body
SpecCaptionLive == SpecCaption /\ WF_vars(TimerFires) /\ WF_vars(CallOver)

\* C29 as stated: every call of generateCaptionOpenAI that awaits the
\* provider, for the response or for its body, ends
C29_ReturnsUnderTimer ==
    (gen.via = "openai" /\ gen.phase \in { "awaiting", "reading" }) ~> (gen.phase = "done")

\* what the timer does cover: a call that awaits the response (the headers)
\* ends or goes on to read the body
C29_HeadersUnderTimer ==
    (gen.via = "openai" /\ gen.phase = "awaiting") ~> (gen.phase \in { "reading", "done" })

\* C3: a call of generateCaption or generateCaptionOpenAI that is over has
\* returned a caption, which begins with the keyword, and has raised no error
C3_NeverRaises ==
    gen.phase = "done" =>
        /\ gen.result.kind = "caption"
        /\ startsWith(trimStart(gen.result.caption), trim(gen.keyword))

TimedOutCaption == fallback(gen.keyword, TimedOutText)

C14_EmptyTextIsFailure ==
    (gen.phase = "done" /\ gen.extracted = "empty")
    => gen.result = Returned(fallback(gen.keyword, UnavailableText))

\* the same of the OpenAI-compatible generator alone
C14_OfOpenAI == gen.via = "openai" => C14_EmptyTextIsFailure

----------------------------------------------------------------------------
(* Upload, batch run and export, by one client, one request after another. *)
(* batch:                                                                  *)
(*   stage    idle, uploaded, running (inside the loop of POST             *)
(*            /api/process), processed, failed, exported                   *)
(*   sent     the images of the upload request                             *)
(*   size     uploadedImages.size of the run                               *)
(*   todo     the images the loop has not reached yet                      *)
(*   idx, results, successCount, errorCount   the variables of the loop    *)
(* archive: the entries appended to the ZIP archive, in order              *)

\* every result a call of generateCaption can end with
generateCaptionResults(keyword, hints, modelName) ==
    { geminiSettled(o, keyword, hints) : o \in SdkOutcomes }
    \cup { caughtGemini(timeoutError(modelName), keyword) }

\* every result a call of generateCaptionOpenAI can end with
generateCaptionOpenAIResults(keyword, hints, provider, keySet) ==
    IF provider \notin Providers THEN { Raised({ <<"unknown provider", "upper">> }) }
    ELSE IF requiresApiKey(provider) /\ ~keySet
    THEN { Raised({ <<"api_key", "upper">>, <<"not set", "lower">> }) }
    ELSE { openaiRead("200", b, keyword, hints) : b \in { c \in Bodies : c.kind # "errorText" } }
         \cup { openaiRead(st, b, keyword, hints)
                : st \in HttpStatuses, b \in { c \in Bodies : c.kind \in { "errorText", "readFails" } } }
         \cup { caughtOpenAI(abortError("TypeError", m), keyword) : m \in ProviderMessages }
         \cup { caughtOpenAI(abortError("AbortError", AbortedMessage), keyword) }

\* the phrases that hold a word the tally of the run looks for
PhrasesWith(word) ==
    IF word = "unavailable"
    THEN { "unavailable", "image description unavailable", "provider temporarily unavailable" }
    ELSE IF word = "filtered" THEN { "content filtered by safety settings" }
    ELSE { "rate limit exceeded, please retry" }

\* caption.includes(word)
captionIncludes(caption, word) == \E i \in 1..Len(caption) : caption[i] \in PhrasesWith(word)

\* one turn of the loop that keeps a result only when a caption was returned
turnDroppingFailures(b, r) ==
    IF r.kind = "caption"
    THEN [b EXCEPT !.results = Append(@, [filename |-> newFilename(b.prefix, b.idx),
                                          caption |-> r.caption, imageData |-> Head(b.todo).data]),
                   !.successCount = @ + 1, !.idx = @ + 1, !.todo = Tail(@)]
    ELSE [b EXCEPT !.errorCount = @ + 1, !.idx = @ + 1, !.todo = Tail(@)]

\* one turn of the loop of POST /api/process, the generator having ended with r
turn(b, r) ==
    LET name == newFilename(b.prefix, b.idx)
        image == Head(b.todo).data
    IN IF r.kind = "caption"
       THEN [b EXCEPT !.results = Append(@, [filename |-> name, caption |-> r.caption,
                                             imageData |-> image]),
                      !.successCount = IF \/ captionIncludes(r.caption, "unavailable")
                                          \/ captionIncludes(r.caption, "filtered")
                                          \/ captionIncludes(r.caption, "rate limit")
                                       THEN @ ELSE @ + 1,
                      !.errorCount = IF \/ captionIncludes(r.caption, "unavailable")
                                        \/ captionIncludes(r.caption, "filtered")
                                        \/ captionIncludes(r.caption, "rate limit")
                                     THEN @ + 1 ELSE @,
                      !.idx = @ + 1, !.todo = Tail(@)]
       ELSE \* catch (error): `${keyword}, processing failed`
            [b EXCEPT !.results = Append(@, [filename |-> name,
                                             caption |-> fallback(b.keyword, << "processing failed" >>),
                                             imageData |-> image]),
                      !.errorCount = @ + 1, !.idx = @ + 1, !.todo = Tail(@)]

RECURSIVE SeqOf(_)
\* the elements of a set one after another
SeqOf(S) ==
    IF S = {} THEN <<>>
    ELSE LET x == CHOOSE y \in S : TRUE IN <<x>> \o SeqOf(S \ {x})

RECURSIVE addLogs(_, _)
addLogs(fs, lines) == IF lines = <<>> THEN fs ELSE addLogs(addLog(fs, Head(lines)), Tail(lines))

\* POST /api/upload
Upload ==
    /\ batch.stage = "idle"
    /\ \E list \in UploadLists :
         \E got \in { collectUploads(list, <<>>) } :
         \E st \in { setUploadedImages(files, got.images) } :
            IF \/ list = <<>> \/ Len(list) > MAX_FILES
               \/ got.status # 200 \/ got.images = <<>>
            THEN \* the response is 400
                 UNCHANGED <<files, lastOp, batch>>
            ELSE /\ files' = IF st.outcome = "ok" THEN addLog(st.fs, "uploaded") ELSE st.fs
                 /\ lastOp' = [kind |-> "setUploadedImages",
                               names |-> GivenNames("setUploadedImages", got.images),
                               accessed |-> st.accessed, outcome |-> st.outcome]
                 /\ batch' = IF st.outcome = "ok"
                             THEN [NoBatch EXCEPT
                                     !.stage = "uploaded",
                                     !.sent = Cardinality({ i \in 1..Len(list) :
                                                 startsWith(list[i].type, << "image/" >>) })]
                             ELSE batch
    /\ UNCHANGED <<lockPromise, pc, awaiting, opKind, archive, classifyVars, captionVars, requestVars, formatVars, limitVars, ioVars>>

RunProviders == { "gemini" } \cup ProviderNames

\* POST /api/process down to the loop
StartRun ==
    /\ batch.stage \in { "idle", "uploaded" }
    /\ \E pr \in Prefixes, k \in Keywords, p \in RunProviders, keySet \in BOOLEAN :
         \E uploadedImages \in { getUploadedImages(files) } :
         IF DOMAIN uploadedImages = {}
         THEN \* 400: "No images uploaded"
              UNCHANGED <<files, lastOp, batch>>
         ELSE /\ files' = addLogs(clearLogs(files), << "start", "found" >>)
              /\ lastOp' = [kind |-> "getUploadedImages", names |-> {},
                            accessed |-> PathsRead("getUploadedImages", files),
                            outcome |-> "ok"]
              /\ batch' = [batch EXCEPT
                             !.stage = "running",
                             !.size = Cardinality(DOMAIN uploadedImages),
                             !.todo = [i \in 1..Cardinality(DOMAIN uploadedImages) |->
                                         [name |-> SeqOf(DOMAIN uploadedImages)[i],
                                          data |-> uploadedImages[SeqOf(DOMAIN uploadedImages)[i]]]],
                             !.prefix = pr, !.keyword = k, !.provider = p, !.keySet = keySet]
    /\ UNCHANGED <<lockPromise, pc, awaiting, opKind, archive, classifyVars, captionVars, requestVars, formatVars, limitVars, ioVars>>

\* one turn of the loop: the pause, the call of the generator, the result
\* and the log line
ProcessImage ==
    /\ batch.stage = "running" /\ batch.todo # <<>>
    /\ \E r \in IF batch.provider = "gemini"
                THEN generateCaptionResults(batch.keyword, <<>>, {})
                ELSE generateCaptionOpenAIResults(batch.keyword, <<>>, batch.provider,
                                                  batch.keySet) :
         /\ batch' = turn(batch, r)
         /\ files' = addLogs(files, << "processing", "outcome" >>)
    /\ UNCHANGED <<lockPromise, pc, awaiting, opKind, lastOp, archive, classifyVars, captionVars, requestVars, formatVars, limitVars, ioVars>>

\* after the loop: await store.setProcessedResults(processedResults), the
\* summary; an error of the Store is caught and logged
FinishRun ==
    /\ batch.stage = "running" /\ batch.todo = <<>>
    /\ \E st \in { setProcessedResults(files, batch.results) } :
         /\ files' = IF st.outcome = "ok" THEN addLogs(st.fs, << "processed", "download" >>)
                     ELSE addLog(st.fs, "failed")
         /\ lastOp' = [kind |-> "setProcessedResults",
                       names |-> GivenNames("setProcessedResults", batch.results),
                       accessed |-> st.accessed, outcome |-> st.outcome]
         /\ batch' = [batch EXCEPT !.stage = IF st.outcome = "ok" THEN "processed" ELSE "failed"]
    /\ UNCHANGED <<lockPromise, pc, awaiting, opKind, archive, classifyVars, captionVars, requestVars, formatVars, limitVars, ioVars>>

\* the entries of the archive: for (const result of processedResults)
\* { append(image, result.filename); append(caption, the name with ".txt") }
entriesOf(results) ==
    [i \in 1..(2 * Len(results)) |->
        IF i % 2 = 1 THEN [name |-> results[(i + 1) \div 2].filename, kind |-> "image"]
        ELSE [name |-> replaceExtWithTxt(results[i \div 2].filename), kind |-> "caption"]]

\* GET /api/download
Download ==
    /\ batch.stage \in { "idle", "processed" }
    /\ \E processedResults \in { SeqOf(getProcessedResults(files)) } :
         IF processedResults = <<>>
         THEN \* 400: "No processed images available"
              UNCHANGED <<lastOp, batch, archive>>
         ELSE /\ archive' = entriesOf(processedResults)
              /\ lastOp' = [kind |-> "getProcessedResults", names |-> {},
                            accessed |-> PathsRead("getProcessedResults", files),
                            outcome |-> "ok"]
              /\ batch' = [batch EXCEPT !.stage = IF @ = "processed" THEN "exported" ELSE @]
    /\ UNCHANGED <<files, lockPromise, pc, awaiting, opKind, classifyVars, captionVars, requestVars, formatVars, limitVars, ioVars>>

\* POST /api/cleanup: await store.clearAll(); the client starts over
Cleanup ==
    /\ batch.stage \in { "uploaded", "processed", "exported", "failed" }
    /\ \E st \in { clearAll(files) } :
         /\ files' = st.fs
         /\ lastOp' = [kind |-> "clearAll", names |-> {}, accessed |-> st.accessed,
                       outcome |-> st.outcome]
    /\ batch' = NoBatch
    /\ archive' = <<>>
    /\ UNCHANGED <<lockPromise, pc, awaiting, opKind, classifyVars, captionVars, requestVars, formatVars, limitVars, ioVars>>

NextPipeline ==
    \/ Upload
    \/ StartRun
    \/ ProcessImage
    \/ FinishRun
    \/ Download
    \/ Cleanup

\* what an earlier run has left in the processed directory
LeftOver ==
    setProcessedResults(<< >>, << [filename |-> newFilename(<<"p">>, MaxImages),
                                   caption |-> <<"old">>, imageData |-> "img"] >>).fs

\* the server starts on directories that are empty, or on those of an earlier run
InitPipeline ==
    /\ files \in { << >>, LeftOver }
    /\ lockPromise = NoPromise
    /\ pc = [p \in Callers |-> "idle"]
    /\ awaiting = [p \in Callers |-> NoPromise]
    /\ opKind = [p \in Callers |-> "none"]
    /\ lastOp = NoOp
    /\ ClassifyIdle /\ CaptionIdle /\ PipeIdle /\ RequestIdle /\ FormatIdle /\ LimitIdle /\ IoIdle

SpecPipeline == InitPipeline /\ [][NextPipeline]_vars

\* C4: in a batch run every image the loop has passed has given one result
\* with a caption, whether the generator returned a caption, a fallback
\* caption or threw; after the loop there are as many results as images
C4_OneResultPerImage ==
    batch.stage = "running" =>
        /\ Len(batch.results) + Len(batch.todo) = batch.size
        /\ Len(batch.results) = batch.idx - 1
        /\ \A i \in 1..Len(batch.results) : batch.results[i].caption # <<>>

\* the loop is over two images, the generator having thrown on each of
\* them, and there are two results
C4_Witness ==
    /\ batch.stage = "running" /\ batch.todo = <<>> /\ batch.size = 2
    /\ Len(batch.results) = 2
    /\ \A i \in 1..2 :
          batch.results[i].caption = fallback(batch.keyword, << "processing failed" >>)

ImageEntries == { i \in 1..Len(archive) : archive[i].kind = "image" }

CaptionEntries == { i \in 1..Len(archive) : archive[i].kind = "caption" }

\* C5: the archive exported after the upload of N images and their run holds
\* N image entries and N caption entries, no two entries of one name, and
\* the caption entries are named as the image entries with ".txt" in place
\* of the extension
C5_RoundTrip ==
    batch.stage = "exported" =>
        /\ Cardinality(ImageEntries) = batch.sent
        /\ Cardinality(CaptionEntries) = batch.sent
        /\ \A i, j \in 1..Len(archive) : i # j => archive[i].name # archive[j].name
        /\ { replaceExtWithTxt(archive[i].name) : i \in ImageEntries }
              = { archive[i].name : i \in CaptionEntries }

\* two images were uploaded, every call of the generator failed, and the
\* archive is exported
C5_Witness ==
    /\ batch.stage = "exported" /\ batch.sent = 2 /\ batch.errorCount = 2
    /\ Len(archive) = 4

\* k written with five digits, for k below 100000
FiveDigits(k) ==
    << DigitChars[((k \div 10000) % 10) + 1], DigitChars[((k \div 1000) % 10) + 1],
       DigitChars[((k \div 100) % 10) + 1], DigitChars[((k \div 10) % 10) + 1],
       DigitChars[(k % 10) + 1] >>

\* "{prefix}_{k padded to 5 digits}.jpg"
StatedName(prefix, k) == prefix \o <<"_">> \o FiveDigits(k) \o <<".", "j", "p", "g">>

\* C21: at every point of a batch run successCount + errorCount is the
\* number of results collected so far and the k-th result is named
\* "{prefix}_{k padded to 5 digits}.jpg", k counting from 1; after the loop
\* successCount + errorCount is the number N of images of the run and the N
\* names are pairwise distinct
C21_TallyAndNames ==
    batch.stage \in { "running", "processed", "failed", "exported" } =>
        /\ batch.successCount + batch.errorCount = Len(batch.results)
        /\ \A k \in 1..Len(batch.results) :
              batch.results[k].filename = StatedName(batch.prefix, k)
        /\ batch.todo = <<>> =>
              /\ batch.successCount + batch.errorCount = batch.size
              /\ \A i, j \in 1..Len(batch.results) :
                    i # j => batch.results[i].filename # batch.results[j].filename

\* the loop is over MaxImages images, one counted a success and one an error
C21_Witness ==
    /\ batch.stage = "running" /\ batch.todo = <<>> /\ batch.size = MaxImages
    /\ batch.successCount >= 1 /\ batch.errorCount >= 1
    /\ Len(batch.results) = MaxImages

\* the lines of the log
LogLines(fs) == { getLogs(fs)[i] : i \in 1..Len(getLogs(fs)) }

\* the processed collection is the results given, each under the last
\* component of its name
HoldsAll(fs, results) ==
    getProcessedResults(fs)
      = { [filename |-> pathBasename(results[i].filename), caption |-> results[i].caption,
           imageData |-> results[i].imageData] : i \in 1..Len(results) }

\* C22: in a single batch run the log is cleared before the first line of
\* the run is written (the log of a run starts with the run's first line
\* and holds no line of before), and whenever the log shows the summary
\* line of the run the processed collection holds all N results of the run
C22_SummaryAfterResults ==
    /\ batch.stage \in { "running", "processed", "failed", "exported" } =>
          /\ getLogs(files) # <<>> /\ Head(getLogs(files)) = "start"
          /\ "uploaded" \notin LogLines(files)
    /\ "processed" \in LogLines(files) =>
          /\ batch.stage \in { "processed", "exported" } /\ batch.todo = <<>>
          /\ Len(batch.results) = batch.size
          /\ Cardinality(getProcessedResults(files)) = batch.size
          /\ HoldsAll(files, batch.results)

\* the log of a run over MaxImages images, uploaded just before, shows the
\* summary line
C22_Witness ==
    /\ batch.stage = "processed" /\ batch.size = MaxImages /\ batch.sent = MaxImages
    /\ "processed" \in LogLines(files)
    /\ Cardinality(getProcessedResults(files)) = MaxImages

\* the texts of the captions a failed call leaves
FailureTexts ==
    { << "rate limit exceeded, please retry" >>, << "content filtered by safety settings" >>,
      TimedOutText, << "network error, check connection" >>,
      << "API key invalid or unauthorized" >>, << "API key not configured" >>,
      << "provider temporarily unavailable" >>, UnavailableText, << "processing failed" >> }

\* the results of the run whose caption is that of a failed call
FailedOf(b, texts) ==
    { i \in 1..Len(b.results) :
        \E t \in texts : b.results[i].caption = fallback(b.keyword, t) }

\* C26 as stated: in the tally of a run every image whose provider call
\* failed (its caption is one of the fallback captions) is counted in
\* errorCount, and successCount counts no such image
C26_FailuresAreErrors ==
    batch.stage \in { "running", "processed", "failed", "exported" } =>
        /\ batch.errorCount >= Cardinality(FailedOf(batch, FailureTexts))
        /\ batch.successCount <= Len(batch.results) - Cardinality(FailedOf(batch, FailureTexts))

\* the failures whose caption holds "unavailable", "filtered" or "rate
\* limit", and those of the catch block of the loop, are counted as errors
C26_OfWordedFailures ==
    batch.stage \in { "running", "processed", "failed", "exported" } =>
        batch.errorCount >=
            Cardinality(FailedOf(batch, { t \in FailureTexts :
                                            \/ t = << "processing failed" >>
                                            \/ \E w \in { "unavailable", "filtered", "rate limit" } :
                                                  captionIncludes(t, w) }))

----------------------------------------------------------------------------
(* POST /api/process served to several requests side by side: a handler   *)
(* runs until it awaits, and at every await another handler may run.      *)
(* runs[r]:                                                                *)
(*   pc       idle, calling (awaiting the caption generator), pausing      *)
(*            (awaiting the timer between two images), storing (awaiting   *)
(*            store.setProcessedResults), done                             *)
(*   status   the status of the response, 0 while there is none            *)
(*   cause    of a response that is no 200: module, rateLimit, validation, *)
(*            store                                                        *)
(*   loop     the variables of the loop, as in a batch                     *)
(*   awaited  the idx of the generator call awaited, 0 when none is        *)
(*   inflight the idx of every provider request that has not settled       *)
(*   waited   the delay that went before each generator call, in ms        *)

MAX_PREFIX_LENGTH == 50

MAX_KEYWORD_LENGTH == 100

MAX_GUIDANCE_LENGTH == 1000

MAX_HINTS_LENGTH == 500

\* RateLimitPresets.STRICT.maxRequests
STRICT_MAX_REQUESTS == 10

\* the delay between two images, in ms
PAUSE_MS == 2000

\* a text of n characters
Repeat(ch, n) == [i \in 1..n |-> ch]

\* the form fields a client sends; a field that is missing (null) and one
\* that is "" are told apart by none of the tests of the route
RunForms ==
    [prefix : { <<"p">>, Repeat("p", MAX_PREFIX_LENGTH + 1), <<" ">>, <<>> },
     keyword : { <<"k">>, Repeat("k", MAX_KEYWORD_LENGTH + 1), <<" ">>, <<>> },
     captionGuidance : { <<>>, Repeat("g", MAX_GUIDANCE_LENGTH + 1) },
     negativeHints : { <<>>, Repeat("h", MAX_HINTS_LENGTH + 1) },
     provider : { "gemini", "openai" }]

\* the import of lib/gemini.ts by the route: the module throws while it is
\* initialised when GEMINI_API_KEY is unset or the placeholder
geminiModule(e) == IF e.GEMINI_API_KEY = "set" THEN "loaded" ELSE "threw"

\* rateLimiter.check: the request is refused when the count has reached
\* maxRequests
rateLimited(e) == e.count >= STRICT_MAX_REQUESTS

\* the checks of the form in the order of the route, "" when all pass
formError(form) ==
    IF form.prefix # <<>> /\ Len(form.prefix) > MAX_PREFIX_LENGTH
    THEN "Prefix is too long"
    ELSE IF form.keyword # <<>> /\ Len(form.keyword) > MAX_KEYWORD_LENGTH
    THEN "Keyword is too long"
    ELSE IF form.captionGuidance # <<>> /\ Len(form.captionGuidance) > MAX_GUIDANCE_LENGTH
    THEN "Caption guidance is too long"
    ELSE IF form.negativeHints # <<>> /\ Len(form.negativeHints) > MAX_HINTS_LENGTH
    THEN "Negative hints are too long"
    ELSE IF form.prefix = <<>> \/ trim(form.prefix) = <<>> THEN "Prefix is required"
    ELSE IF form.keyword = <<>> \/ trim(form.keyword) = <<>> THEN "Keyword is required"
    ELSE ""

\* if (idx > 1) await new Promise((resolve) => setTimeout(resolve, 2000))
pauseBeforeEvery(idx) == PAUSE_MS

pauseBefore(idx) == IF idx > 1 THEN PAUSE_MS ELSE 0

\* the variables of the loop before its first turn
loopOver(form, uploadedImages) ==
    [NoBatch EXCEPT
       !.stage = "running",
       !.size = Cardinality(DOMAIN uploadedImages),
       !.todo = [i \in 1..Cardinality(DOMAIN uploadedImages) |->
                   [name |-> SeqOf(DOMAIN uploadedImages)[i],
                    data |-> uploadedImages[SeqOf(DOMAIN uploadedImages)[i]]]],
       !.prefix = form.prefix, !.keyword = form.keyword, !.provider = form.provider]

\* the generator is called for the image at idx: store.addLog(`Processing
\* ...`), then the call, which the handler awaits
callStarted(run, ms) ==
    [run EXCEPT !.pc = "calling", !.awaited = run.loop.idx,
                !.inflight = @ \cup { run.loop.idx }, !.waited = Append(@, ms)]

\* the handler that clears the log before it looks at the form
receivedClearingFirst(form, fs, run) ==
    IF formError(form) # "" \/ DOMAIN getUploadedImages(fs) = {}
    THEN [fs |-> clearLogs(fs), run |-> [run EXCEPT !.pc = "done", !.status = 400,
                                                    !.cause = "validation"]]
    ELSE [fs |-> addLogs(clearLogs(fs), << "start", "found", "processing" >>),
          run |-> callStarted([run EXCEPT !.loop = loopOver(form, getUploadedImages(fs)),
                                          !.read = getUploadedImages(fs)],
                              pauseBefore(1))]

\* the handler from the form to its first await inside the loop
received(form, fs, run) ==
    IF formError(form) # "" \/ DOMAIN getUploadedImages(fs) = {}
    THEN [fs |-> fs, run |-> [run EXCEPT !.pc = "done", !.status = 400,
                                         !.cause = "validation"]]
    ELSE [fs |-> addLogs(clearLogs(fs), << "start", "found", "processing" >>),
          run |-> callStarted([run EXCEPT !.loop = loopOver(form, getUploadedImages(fs)),
                                          !.read = getUploadedImages(fs)],
                              pauseBefore(1))]

\* a request arrives
Receive(r) ==
    /\ runs[r].pc = "idle"
    /\ \E form \in RunForms :
         IF geminiModule(env) = "threw"
         THEN \* the route module cannot be loaded
              /\ runs' = [runs EXCEPT ![r] = [@ EXCEPT !.pc = "done", !.status = 500,
                                                       !.cause = "module",
                                                       !.loop.provider = form.provider]]
              /\ UNCHANGED <<files, env>>
         ELSE IF rateLimited(env)
         THEN /\ runs' = [runs EXCEPT ![r] = [@ EXCEPT !.pc = "done", !.status = 429,
                                                       !.cause = "rateLimit",
                                                       !.loop.provider = form.provider]]
              /\ UNCHANGED <<files, env>>
         ELSE \E got \in { received(form, files, runs[r]) } :
                /\ files' = got.fs
                /\ runs' = [runs EXCEPT ![r] = got.run]
                /\ env' = [env EXCEPT !.count = @ + 1]
    /\ UNCHANGED <<lockPromise, pc, awaiting, opKind, lastOp, upload,
                   classifyVars, captionVars, pipeVars, formatVars, limitVars, ioVars>>

\* how a call of the generator can end: with a caption, with an exception,
\* or with the caption of a timeout after API_TIMEOUT_MS
CallEndings(run, e) ==
    IF run.loop.provider # "gemini" /\ e.OPENAI_API_KEY # "set" THEN { "threw" }
    ELSE { "caption", "threw", "timedOut" }

resultOf(ending, keyword) ==
    IF ending = "caption" THEN Returned(buildCaption(keyword, << "c", "a", "t" >>, <<>>))
    ELSE IF ending = "timedOut" THEN Returned(fallback(keyword, TimedOutText))
    ELSE Raised({})

\* the provider requests still in flight when the call for idx has ended:
\* withTimeout (generateCaption) leaves the request running when the timer
\* fires, withAbortSignal (generateCaptionOpenAI) aborts it
leftInFlight(run, ending) ==
    IF ending = "timedOut" /\ run.loop.provider = "gemini" THEN run.inflight
    ELSE run.inflight \ { run.awaited }

\* the generator call awaited ends: the result or the fallback is pushed and
\* logged, idx++, and the handler awaits the timer before the next image or
\* store.setProcessedResults after the last one
CallSettles(r) ==
    /\ runs[r].pc = "calling"
    /\ \E ending \in CallEndings(runs[r], env) :
         \E b \in { turn(runs[r].loop, resultOf(ending, runs[r].loop.keyword)) } :
            /\ runs' = [runs EXCEPT ![r] =
                          [@ EXCEPT !.loop = b, !.awaited = 0,
                                    !.inflight = leftInFlight(runs[r], ending),
                                    !.pc = IF b.todo = <<>> THEN "storing" ELSE "pausing"]]
            /\ files' = addLog(files, "outcome")
    /\ UNCHANGED <<lockPromise, pc, awaiting, opKind, lastOp, upload, env,
                   classifyVars, captionVars, pipeVars, formatVars, limitVars, ioVars>>

\* the timer between two images fires: the next call starts
PauseOver(r) ==
    /\ runs[r].pc = "pausing"
    /\ runs' = [runs EXCEPT ![r] = callStarted(@, pauseBefore(@.loop.idx))]
    /\ files' = addLog(files, "processing")
    /\ UNCHANGED <<lockPromise, pc, awaiting, opKind, lastOp, upload, env,
                   classifyVars, captionVars, pipeVars, formatVars, limitVars, ioVars>>

\* a request the generator no longer waits for settles
AbandonedSettles(r) ==
    /\ \E i \in runs[r].inflight \ { runs[r].awaited } :
         runs' = [runs EXCEPT ![r] = [@ EXCEPT !.inflight = @ \ {i}]]
    /\ UNCHANGED <<files, lockPromise, pc, awaiting, opKind, lastOp, upload, env,
                   classifyVars, captionVars, pipeVars, formatVars, limitVars, ioVars>>

\* await store.setProcessedResults(processedResults), the summary and the
\* response; an error of the Store is caught, logged and answered with 500
StoreResults(r) ==
    /\ runs[r].pc = "storing"
    /\ \E st \in { setProcessedResults(files, runs[r].loop.results) } :
         /\ files' = IF st.outcome = "ok" THEN addLogs(st.fs, << "processed", "download" >>)
                     ELSE addLog(st.fs, "failed")
         /\ lastOp' = [kind |-> "setProcessedResults",
                       names |-> GivenNames("setProcessedResults", runs[r].loop.results),
                       accessed |-> st.accessed, outcome |-> st.outcome]
         /\ runs' = [runs EXCEPT ![r] =
                       [@ EXCEPT !.pc = "done",
                                 !.order = 1 + Cardinality({ q \in Requests :
                                                               runs[q].order > 0 }),
                                 !.status = IF st.outcome = "ok" THEN 200 ELSE 500,
                                 !.cause = IF st.outcome = "ok" THEN "" ELSE "store",
                                 !.loop.stage = IF st.outcome = "ok" THEN "processed"
                                                ELSE "failed"]]
    /\ UNCHANGED <<lockPromise, pc, awaiting, opKind, upload, env,
                   classifyVars, captionVars, pipeVars, formatVars, limitVars, ioVars>>

NextRuns ==
    \/ \E r \in Requests : Receive(r)
    \/ \E r \in Requests : CallSettles(r)
    \/ \E r \in Requests : PauseOver(r)
    \/ \E r \in Requests : AbandonedSettles(r)
    \/ \E r \in Requests : StoreResults(r)

\* the uploads directory holds the images of an upload, the processed
\* directory the result of an earlier run and the log its line
Stocked ==
    addLog(setUploadedImages(LeftOver, << [name |-> ImgName, data |-> "img"],
                                         [name |-> <<"a", "_", "1", ".", "j", "p", "g">>,
                                          data |-> "img"] >>).fs, "uploaded")

\* the environment the server was started in, and the requests the rate
\* limiter has counted in the running window
Environments ==
    [GEMINI_API_KEY : { "unset", "placeholder", "set" }, OPENAI_API_KEY : { "unset", "set" },
     count : { 0, STRICT_MAX_REQUESTS - 1 }]

InitRuns ==
    /\ files \in { LeftOver, Stocked }
    /\ lockPromise = NoPromise
    /\ pc = [p \in Callers |-> "idle"]
    /\ awaiting = [p \in Callers |-> NoPromise]
    /\ opKind = [p \in Callers |-> "none"]
    /\ lastOp = NoOp
    /\ ClassifyIdle /\ CaptionIdle /\ PipeIdle /\ FormatIdle /\ LimitIdle /\ IoIdle
    /\ upload = NoUpload
    /\ runs = [r \in Requests |-> NoRun]
    /\ env \in Environments

SpecRuns == InitRuns /\ [][NextRuns]_vars

InLoop == { r \in Requests : runs[r].pc \in { "calling", "pausing" } }

\* C11 as stated: two POST /process requests are never both inside the loop
\* over the images
C11_OneRunInLoop == Cardinality(InLoop) <= 1

\* C18: a request that POST /api/process rejects at validation (a field too
\* long, prefix or keyword missing or blank, no image uploaded) is answered
\* with status 400 in the step that receives it, no generator call is
\* started for it, and the step leaves every file alone: the log is neither
\* cleared nor appended to and the processed results stay as they were
C18_RejectionTouchesNothing ==
    [][\A r \in Requests :
          (runs[r].pc = "idle" /\ runs'[r].cause = "validation") =>
             /\ runs'[r].status = 400 /\ runs'[r].pc = "done"
             /\ runs'[r].waited = <<>> /\ runs'[r].inflight = {}
             /\ getLogs(files') = getLogs(files)
             /\ getProcessedResults(files') = getProcessedResults(files)
             /\ files' = files]_vars

\* a request was rejected at validation while the log held a line and the
\* processed directory a result, and both are as they were
C18_Witness ==
    /\ \E r \in Requests : runs[r].cause = "validation" /\ runs[r].status = 400
    /\ \A r \in Requests : runs[r].pc \in { "idle", "done" } /\ runs[r].waited = <<>>
    /\ files = Stocked

\* C19 as stated: with GEMINI_API_KEY unset and OPENAI_API_KEY set, a request
\* for the provider "openai" is not stopped by the missing Gemini credential
C19_OtherProviderRuns ==
    \A r \in Requests :
        (/\ env.GEMINI_API_KEY = "unset" /\ env.OPENAI_API_KEY = "set"
         /\ runs[r].pc = "done" /\ runs[r].loop.provider = "openai")
        => runs[r].cause # "module"

\* the generator calls of a run come one after another: each is started
\* after the one before has ended, the first with no delay and every later
\* one after the pause
CallsInTurn(run) ==
    /\ \A i \in 1..Len(run.waited) : run.waited[i] = IF i = 1 THEN 0 ELSE PAUSE_MS
    /\ Len(run.waited) <= Len(run.loop.results) + 1
    /\ run.pc = "calling" =>
          /\ run.awaited = run.loop.idx
          /\ Len(run.waited) = run.loop.idx /\ Len(run.loop.results) = run.loop.idx - 1
    /\ run.pc # "calling" => run.awaited = 0 /\ Len(run.waited) = Len(run.loop.results)

----------------------------------------------------------------------------
(* POST /api/upload, by the route that sanitises the names and by the one *)
(* that keys the files by their position.                                 *)
(* upload:                                                                 *)
(*   route    none, upload, legacy                                         *)
(*   sent     the names of the files of the request, in order              *)
(*   status, code   of the response                                        *)
(*   accepted the names of the files that passed the checks of the route,  *)
(*            as they were sent                                            *)
(*   keys     the keys of uploadedImages, in insertion order               *)
(*   stored   the names in the uploads directory after the request         *)

\* if (files.length > MAX_FILES), were it to refuse MAX_FILES files as well
tooManyAtLimit(n) == n >= MAX_FILES

\* if (files.length > MAX_FILES)
tooMany(n) == n > MAX_FILES

refused(fs, code) == [status |-> 400, code |-> code, images |-> <<>>, fs |-> fs]

\* await store.setUploadedImages(uploadedImages); store.addLog(...); an
\* error of the Store is caught and answered with its status
saved(images, st) ==
    IF st.outcome = "ok"
    THEN [status |-> 200, code |-> "", images |-> images, fs |-> addLog(st.fs, "uploaded")]
    ELSE [status |-> 500, code |-> "UNKNOWN_ERROR", images |-> images, fs |-> st.fs]

\* after the loop over the files
collected(got, fs) ==
    IF got.status # 200 THEN refused(fs, "FILE_TOO_LARGE or UNSUPPORTED_FILE_TYPE")
    ELSE IF got.images = <<>> THEN refused(fs, "INVALID_INPUT")
    ELSE saved(got.images, setUploadedImages(fs, got.images))

\* POST /api/upload of the route with the security limits
posted(list, fs) ==
    IF list = <<>> THEN refused(fs, "INVALID_INPUT")
    ELSE IF tooMany(Len(list)) THEN refused(fs, "TOO_MANY_FILES")
    ELSE collected(collectUploads(list, <<>>), fs)

\* POST /api/upload of the route that keys the files by their position
postedLegacy(list, fs) ==
    IF list = <<>> THEN refused(fs, "")
    ELSE saved(collectLegacy(list, 0, <<>>),
               setUploadedImagesUnchecked(fs, collectLegacy(list, 0, <<>>)))

\* file.type.startsWith("image/")
IsImageFile(file) == startsWith(file.type, << "image/" >>)

\* the files of a request that pass the checks of the route
acceptedOf(list, out) ==
    IF out.status # 200 THEN <<>>
    ELSE [i \in 1..Len(SelectSeq(list, IsImageFile)) |-> SelectSeq(list, IsImageFile)[i].name]

answered(route, list, out) ==
    [route |-> route, sent |-> [i \in 1..Len(list) |-> list[i].name],
     status |-> out.status, code |-> out.code, accepted |-> acceptedOf(list, out),
     keys |-> [i \in 1..Len(out.images) |-> out.images[i].name],
     stored |-> readdir(out.fs, UPLOAD_DIR)]

\* the lists of files a client sends: the short ones, and those of MAX_FILES
\* and of MAX_FILES + 1 files
BatchLists == UploadLists \cup { BatchOf(MAX_FILES), BatchOf(MAX_FILES + 1) }

PostUpload ==
    /\ upload.route = "none"
    /\ \E list \in BatchLists :
         \E out \in { posted(list, files) } :
            /\ files' = out.fs
            /\ upload' = answered("upload", list, out)
    /\ UNCHANGED <<lockPromise, pc, awaiting, opKind, lastOp, runs, env,
                   classifyVars, captionVars, pipeVars, formatVars, limitVars, ioVars>>

PostUploadLegacy ==
    /\ upload.route = "none"
    /\ \E list \in UploadLists :
         \E out \in { postedLegacy(list, files) } :
            /\ files' = out.fs
            /\ upload' = answered("legacy", list, out)
    /\ UNCHANGED <<lockPromise, pc, awaiting, opKind, lastOp, runs, env,
                   classifyVars, captionVars, pipeVars, formatVars, limitVars, ioVars>>

\* the client has read the response: POST /api/cleanup, and the next upload
\* can come
NextRequestOfClient ==
    /\ upload.route # "none"
    /\ upload' = NoUpload
    /\ files' = clearAll(files).fs
    /\ UNCHANGED <<lockPromise, pc, awaiting, opKind, lastOp, runs, env,
                   classifyVars, captionVars, pipeVars, formatVars, limitVars, ioVars>>

NextUpload == PostUpload \/ PostUploadLegacy \/ NextRequestOfClient

InitUpload ==
    /\ files \in { LeftOver, Stocked }
    /\ lockPromise = NoPromise
    /\ pc = [p \in Callers |-> "idle"]
    /\ awaiting = [p \in Callers |-> NoPromise]
    /\ opKind = [p \in Callers |-> "none"]
    /\ lastOp = NoOp
    /\ ClassifyIdle /\ CaptionIdle /\ PipeIdle /\ RequestIdle /\ FormatIdle /\ LimitIdle /\ IoIdle

SpecUpload == InitUpload /\ [][NextUpload]_vars

\* C12: the route with the security limits accepts MAX_FILES images (the
\* response is 200 and all of them are stored) and refuses MAX_FILES + 1
\* files with status 400 and TOO_MANY_FILES, and the request it refuses so
\* leaves the uploads directory and the log as they were
C12_LimitOnFiles ==
    [][(upload.route = "none" /\ upload'.route = "upload") =>
          /\ upload'.sent = [i \in 1..MAX_FILES |-> ImgName] =>
                /\ upload'.status = 200 /\ Len(upload'.accepted) = MAX_FILES
                /\ Cardinality(upload'.stored) = MAX_FILES
          /\ Len(upload'.sent) = MAX_FILES + 1 =>
                upload'.status = 400 /\ upload'.code = "TOO_MANY_FILES"
          /\ upload'.code = "TOO_MANY_FILES" =>
                /\ Len(upload'.sent) > MAX_FILES
                /\ getUploadedImages(files') = getUploadedImages(files)
                /\ getLogs(files') = getLogs(files)
                /\ files' = files]_vars

\* MAX_FILES + 1 files were refused with TOO_MANY_FILES while the uploads
\* directory held two images and the log a line
C12_Witness ==
    /\ upload.route = "upload" /\ Len(upload.sent) = MAX_FILES + 1
    /\ upload.status = 400 /\ upload.code = "TOO_MANY_FILES"
    /\ files = Stocked

\* C13 as stated: the keys of the files an upload accepts are pairwise
\* distinct, two files both sent as "a.jpg" are stored as "a.jpg" and
\* "a_1.jpg", and as many images are stored as files were accepted
C13_DistinctKeysAllStored ==
    upload.status = 200 =>
        /\ \A i, j \in 1..Len(upload.keys) : i # j => upload.keys[i] # upload.keys[j]
        /\ upload.accepted = << ImgName, ImgName >> =>
              /\ upload.keys = << ImgName, <<"a", "_", "1", ".", "j", "p", "g">> >>
              /\ upload.stored = { ImgName, <<"a", "_", "1", ".", "j", "p", "g">> }
        /\ Len(upload.keys) = Len(upload.accepted)
        /\ Cardinality(upload.stored) = Len(upload.accepted)

\* the same of the route with the security limits alone
C13_OfUploadRoute == upload.route = "upload" => C13_DistinctKeysAllStored

----------------------------------------------------------------------------
(* The text of a caption and of a prompt.                                  *)
(* built:  one call of buildCaption (once), and a second call whose        *)
(*         rawDesc is the caption the first returned (twice)               *)
(* prompt: the parts a generator has pushed, and the prompt they join to   *)

\* let desc = rawDesc.trim().replace(/[,;]+$/, ""); a "." after every
\* description
sentenceOfDotAlways(rawDesc) == Append(stripCommas(trim(rawDesc)), ".")

\* let desc = rawDesc.trim().replace(/[,;]+$/, "");
\* if (desc && !desc.match(/[.!?]$/)) desc += "."
sentenceOf(rawDesc) ==
    IF stripCommas(trim(rawDesc)) # <<>>
       /\ stripCommas(trim(rawDesc))[Len(stripCommas(trim(rawDesc)))] \notin { ".", "!", "?" }
    THEN Append(stripCommas(trim(rawDesc)), ".")
    ELSE stripCommas(trim(rawDesc))

\* neg = `(neg: ${negativeHints})`, with no blank before it
negClauseUnspaced(negativeHints) ==
    IF negativeHints # <<>> THEN << "(neg:", " " >> \o negativeHints \o << ")" >> ELSE <<>>

\* let neg = ""; if (negativeHints) neg = ` (neg: ${negativeHints})`
negClause(negativeHints) ==
    IF negativeHints # <<>> THEN << " ", "(neg:", " " >> \o negativeHints \o << ")" >>
    ELSE <<>>

\* `${coreSubject}, ${desc}${neg}`.trim()
formatted(coreSubject, desc, neg) == trim(coreSubject \o << ",", " " >> \o desc \o neg)

\* buildCaption of lib/gemini.ts, with its branch for each checkpoint
buildCaptionFor(keyword, rawDesc, checkpoint, negativeHints) ==
    IF checkpoint = "WAN-2.2"
    THEN formatted(trim(keyword), sentenceOf(rawDesc), negClause(negativeHints))
    ELSE IF checkpoint = "SDXL"
    THEN formatted(trim(keyword), sentenceOf(rawDesc), negClause(negativeHints))
    ELSE IF checkpoint = "FLUX"
    THEN formatted(trim(keyword), sentenceOf(rawDesc), negClause(negativeHints))
    ELSE formatted(trim(keyword), sentenceOf(rawDesc), negClause(negativeHints))

\* the checkpoints of the form, and one it does not offer
Checkpoints == { "WAN-2.2", "SDXL", "FLUX", "Pony", "" }

\* keywords with a blank before and after
FormatKeywords == Keywords \cup { << "k", " " >> }

\* descriptions that end in each of the marks the function looks at
FormatDescs ==
    Descs \cup { << "c", "a", "t", "!" >>, << "c", "a", "t", "?" >>,
                 << "c", "a", "t", ";", "," >>, << " ", "c", "a", "t", " " >> }

BuildCaption ==
    /\ built.phase = "idle" /\ prompt.phase = "idle"
    /\ \E k \in FormatKeywords, d \in FormatDescs, c \in Checkpoints, h \in Hints :
         built' = [phase |-> "built", keyword |-> k, rawDesc |-> d, negativeHints |-> h,
                   checkpoint |-> c, once |-> buildCaptionFor(k, d, c, h), twice |-> <<>>]
    /\ UNCHANGED <<storeVars, classifyVars, captionVars, pipeVars, requestVars, prompt, limitVars, ioVars>>

\* the caption is handed to buildCaption as rawDesc
BuildAgain ==
    /\ built.phase = "built"
    /\ built' = [built EXCEPT !.phase = "rebuilt",
                              !.twice = buildCaptionFor(built.keyword, built.once,
                                                        built.checkpoint, built.negativeHints)]
    /\ UNCHANGED <<storeVars, classifyVars, captionVars, pipeVars, requestVars, prompt, limitVars, ioVars>>

CaptionRead ==
    /\ built.phase # "idle"
    /\ built' = NoBuilt
    /\ UNCHANGED <<storeVars, classifyVars, captionVars, pipeVars, requestVars, prompt, limitVars, ioVars>>

\* the description as the caption format is stated: the raw description
\* trimmed, its trailing commas and semicolons stripped, "." appended when
\* it is not empty and does not end in ".", "!" or "?"
StatedDescription(rawDesc) ==
    LET t == stripCommas(trim(rawDesc)) IN
    IF t = <<>> \/ t[Len(t)] \in { ".", "!", "?" } THEN t ELSE t \o << "." >>

StatedClause(hints) ==
    IF hints = <<>> THEN <<>> ELSE << " ", "(neg:", " " >> \o hints \o << ")" >>

\* C15 as stated: buildCaption returns
\* trim(keyword + ", " + description + negative-clause), whatever the checkpoint
C15_StatedFormat ==
    built.phase # "idle" =>
        /\ built.once = trim(built.keyword \o << ",", " " >>
                               \o StatedDescription(built.rawDesc)
                               \o StatedClause(built.negativeHints))
        /\ \A c \in Checkpoints :
              buildCaptionFor(built.keyword, built.rawDesc, c, built.negativeHints)
                 = built.once

\* C15 (amended): buildCaption returns
\* trim(trim(keyword) + ", " + description + negative-clause): the keyword is
\* trimmed on both sides before it is joined, so that no blank stands
\* between the keyword and the comma. The description and the negative
\* clause are as stated, and every checkpoint gives the same caption, which
\* is the one the generators compute
C15_TrimmedKeywordFormat ==
    built.phase # "idle" =>
        /\ built.once = trim(trim(built.keyword) \o << ",", " " >>
                               \o StatedDescription(built.rawDesc)
                               \o StatedClause(built.negativeHints))
        /\ \A c \in Checkpoints :
              buildCaptionFor(built.keyword, built.rawDesc, c, built.negativeHints)
                 = built.once
        /\ buildCaption(built.keyword, built.rawDesc, built.negativeHints) = built.once

\* keyword "k " with a blank after it, description "cat", hints "blur": the
\* caption is "k, cat. (neg: blur)"
C15_Witness ==
    /\ built.phase = "built" /\ built.keyword = << "k", " " >>
    /\ built.rawDesc = << "c", "a", "t" >> /\ built.negativeHints = << "blur" >>
    /\ built.once = << "k", ",", " ", "c", "a", "t", ".", " ", "(neg:", " ", "blur", ")" >>

lengthMap ==
    [Short |-> << "Keep the description concise (1-2 sentences)." >>,
     Medium |-> << "Provide a moderate description (2-4 sentences)." >>,
     Long |-> << "Provide a detailed, comprehensive description." >>]

\* the properties an object literal inherits from Object.prototype
ObjectPrototypeKeys ==
    { "constructor", "toString", "valueOf", "hasOwnProperty", "isPrototypeOf",
      "propertyIsEnumerable", "toLocaleString", "__proto__" }

\* lengthMap[key]: the own property, else the one inherited, which is a
\* function or an object and reads as such in a string, else undefined
lengthMapGet(key) ==
    IF key \in DOMAIN lengthMap THEN [defined |-> TRUE, text |-> lengthMap[key]]
    ELSE IF key \in ObjectPrototypeKeys
    THEN [defined |-> TRUE, text |-> << "Object.prototype.", key >>]
    ELSE [defined |-> FALSE, text |-> <<>>]

\* lengthMap[options.captionLength] || lengthMap.Medium
lengthPart(captionLength) ==
    IF lengthMapGet(captionLength).defined THEN lengthMapGet(captionLength).text
    ELSE lengthMap.Medium

DefaultInstruction == << "Describe this image in detail for training a LoRA model." >>

StrictFocusClause == << "Focus only on the main subject, ignoring background details." >>

\* the promptParts of generateCaption
promptParts(options) ==
    << IF options.captionGuidance # <<>> THEN options.captionGuidance ELSE DefaultInstruction >>
    \o << lengthPart(options.captionLength) >>
    \o (IF options.negativeHints # <<>>
        THEN << << "Avoid mentioning: " >> \o options.negativeHints >> ELSE <<>>)
    \o (IF options.strictFocus THEN << StrictFocusClause >> ELSE <<>>)

\* the promptParts of generateCaptionOpenAI
promptPartsOpenAI(options) ==
    << IF options.captionGuidance # <<>> THEN options.captionGuidance ELSE DefaultInstruction >>
    \o << lengthPart(options.captionLength) >>
    \o (IF options.negativeHints # <<>>
        THEN << << "Avoid mentioning: " >> \o options.negativeHints >> ELSE <<>>)
    \o (IF options.strictFocus THEN << StrictFocusClause >> ELSE <<>>)

RECURSIVE join(_, _)
\* Array.prototype.join
join(parts, separator) ==
    IF parts = <<>> THEN <<>>
    ELSE IF Len(parts) = 1 THEN Head(parts)
    ELSE Head(parts) \o separator \o join(Tail(parts), separator)

\* the values of captionLength a form can carry: the three of the select,
\* "" and a missing field (null reads as the key "null"), another case, and
\* names of properties every object has
CaptionLengths ==
    { "Short", "Medium", "Long", "", "null", "short", "constructor", "toString" }

PromptOptions ==
    [captionGuidance : { <<>>, << "guide" >> }, captionLength : CaptionLengths,
     negativeHints : Hints, strictFocus : BOOLEAN]

BuildPrompt ==
    /\ prompt.phase = "idle" /\ built.phase = "idle"
    /\ \E options \in PromptOptions, via \in { "gemini", "openai" } :
         \E parts \in { IF via = "gemini" THEN promptParts(options)
                        ELSE promptPartsOpenAI(options) } :
            prompt' = [phase |-> "built", via |-> via,
                       captionLength |-> options.captionLength,
                       captionGuidance |-> options.captionGuidance,
                       negativeHints |-> options.negativeHints,
                       strictFocus |-> options.strictFocus,
                       parts |-> parts, text |-> join(parts, << " " >>)]
    /\ UNCHANGED <<storeVars, classifyVars, captionVars, pipeVars, requestVars, built, limitVars, ioVars>>

\* the prompt is sent
PromptSent ==
    /\ prompt.phase = "built"
    /\ prompt' = NoPrompt
    /\ UNCHANGED <<storeVars, classifyVars, captionVars, pipeVars, requestVars, built, limitVars, ioVars>>

NextFormat == BuildCaption \/ BuildAgain \/ CaptionRead \/ BuildPrompt \/ PromptSent

SpecFormat == Init /\ [][NextFormat]_vars

\* the parts of the prompt as stated, with the Medium instruction for every
\* captionLength that is none of the three
StatedParts ==
    << IF prompt.captionGuidance # <<>> THEN prompt.captionGuidance ELSE DefaultInstruction >>
    \o << IF prompt.captionLength \in { "Short", "Medium", "Long" }
          THEN lengthMap[prompt.captionLength] ELSE lengthMap.Medium >>
    \o (IF prompt.negativeHints # <<>>
        THEN << << "Avoid mentioning: " >> \o prompt.negativeHints >> ELSE <<>>)
    \o (IF prompt.strictFocus THEN << StrictFocusClause >> ELSE <<>>)

\* C17 as stated: with a captionLength other than "Short", "Medium" and
\* "Long" the length instruction of the prompt is the Medium one, and the
\* prompt is the guidance or the default instruction, the length
\* instruction, the avoid-mentioning clause and the strict-focus clause, in
\* this order and joined by single blanks, in both generators
C17_MediumByDefault ==
    prompt.phase = "built" =>
        /\ prompt.parts = StatedParts
        /\ prompt.text = join(StatedParts, << " " >>)

\* the same for the values of captionLength that name no property of
\* Object.prototype
C17_OfPlainLengths ==
    (prompt.phase = "built" /\ prompt.captionLength \notin ObjectPrototypeKeys)
    => C17_MediumByDefault

----------------------------------------------------------------------------
(* The rate limiter every route calls first.                               *)
(* limiter:                                                                *)
(*   store      RateLimiter.store: identifier -> [count, resetTime]        *)
(*   now        Date.now(), in ms                                          *)
(*   swept      whether the cleanup interval has fired                     *)
(*   made       the checks made                                            *)
(*   allowedIn  per identifier and preset, the requests allowed in the     *)
(*              identifier's running window                                *)
(*   last       the last check: what it found, what it answered            *)

\* windowMs of the three presets: 60 * 1000
WINDOW_MS == 60000

MODERATE_MAX_REQUESTS == 30

RELAXED_MAX_REQUESTS == 100

RateLimitPresets ==
    [STRICT |-> [windowMs |-> WINDOW_MS, maxRequests |-> STRICT_MAX_REQUESTS],
     MODERATE |-> [windowMs |-> WINDOW_MS, maxRequests |-> MODERATE_MAX_REQUESTS],
     RELAXED |-> [windowMs |-> WINDOW_MS, maxRequests |-> RELAXED_MAX_REQUESTS]]

PresetNames == DOMAIN RateLimitPresets

\* the checks of one behaviour, and the time that passes in it
MaxChecks == 3

MaxTicks == 3

\* the clock moves by half a window
TickMs == WINDOW_MS \div 2

\* the headers of a request; a header that is missing (null) and one that
\* is "" are both falsy
RequestHeaders ==
    [forwarded : { <<>>, <<"a", ",", "b">>, <<",", "a">> }, realIp : { <<>>, <<"b">> }]

\* forwarded.split(",")[0]
firstOfSplit(t) ==
    IF \E i \in 1..Len(t) : t[i] = ","
    THEN SubSeq(t, 1, (CHOOSE i \in 1..Len(t) : t[i] = "," /\ \A j \in 1..(i - 1) : t[j] # ",") - 1)
    ELSE t

\* forwarded?.split(",")[0] || realIp || "unknown"
getClientIdentifier(headers) ==
    IF firstOfSplit(headers.forwarded) # <<>> THEN firstOfSplit(headers.forwarded)
    ELSE IF headers.realIp # <<>> THEN headers.realIp
    ELSE <<"unknown">>

\* the check that lets a request through at the limit
checkLimitInclusive(store, identifier, now, config) ==
    IF identifier \notin DOMAIN store \/ store[identifier].resetTime < now
    THEN [store |-> (identifier :> [count |-> 1, resetTime |-> now + config.windowMs]) @@ store,
          allowed |-> TRUE, remaining |-> config.maxRequests - 1,
          resetTime |-> now + config.windowMs]
    ELSE IF store[identifier].count > config.maxRequests
    THEN [store |-> store, allowed |-> FALSE, remaining |-> 0,
          resetTime |-> store[identifier].resetTime]
    ELSE [store |-> (identifier :> [store[identifier] EXCEPT !.count = @ + 1]) @@ store,
          allowed |-> TRUE, remaining |-> config.maxRequests - (store[identifier].count + 1),
          resetTime |-> store[identifier].resetTime]

\* RateLimiter.checkLimit
checkLimit(store, identifier, now, config) ==
    IF identifier \notin DOMAIN store \/ store[identifier].resetTime < now
    THEN \* a new entry
         [store |-> (identifier :> [count |-> 1, resetTime |-> now + config.windowMs]) @@ store,
          allowed |-> TRUE, remaining |-> config.maxRequests - 1,
          resetTime |-> now + config.windowMs]
    ELSE IF store[identifier].count >= config.maxRequests
    THEN [store |-> store, allowed |-> FALSE, remaining |-> 0,
          resetTime |-> store[identifier].resetTime]
    ELSE [store |-> (identifier :> [store[identifier] EXCEPT !.count = @ + 1]) @@ store,
          allowed |-> TRUE, remaining |-> config.maxRequests - (store[identifier].count + 1),
          resetTime |-> store[identifier].resetTime]

\* rateLimit: the response with status 429, or null (0) when the request
\* is allowed
rateLimit(result) == IF ~result.allowed THEN 429 ELSE 0

\* the requests allowed in the running window of the identifier, after a
\* check under the preset
tallied(l, identifier, preset, result) ==
    LET fresh == identifier \notin DOMAIN l.store \/ l.store[identifier].resetTime < l.now
        before == IF fresh \/ identifier \notin DOMAIN l.allowedIn
                  THEN [p \in PresetNames |-> 0] ELSE l.allowedIn[identifier]
    IN (identifier :> [before EXCEPT ![preset] = IF result.allowed THEN @ + 1 ELSE @])
       @@ l.allowedIn

\* a request with these headers reaches a route that checks under the preset
checked(l, headers, preset) ==
    LET identifier == getClientIdentifier(headers)
        result == checkLimit(l.store, identifier, l.now, RateLimitPresets[preset])
        found == identifier \in DOMAIN l.store
    IN [l EXCEPT
          !.store = result.store,
          !.made = @ + 1,
          !.allowedIn = tallied(l, identifier, preset, result),
          !.last = [identifier |-> identifier, preset |-> preset, now |-> l.now,
                    found |-> found,
                    count |-> IF found THEN l.store[identifier].count ELSE 0,
                    resetTime |-> IF found THEN l.store[identifier].resetTime ELSE 0,
                    allowed |-> result.allowed, remaining |-> result.remaining,
                    status |-> rateLimit(result),
                    countAfter |-> result.store[identifier].count,
                    resetAfter |-> result.store[identifier].resetTime]]

\* the limiter after n requests with the same headers under the same preset,
\* all at time 0 and none over the limit of the preset
asked(headers, preset, n) ==
    IF n = 0 THEN NoLimiter
    ELSE [NoLimiter EXCEPT
            !.store = (getClientIdentifier(headers)
                         :> [count |-> n, resetTime |-> RateLimitPresets[preset].windowMs]),
            !.allowedIn = (getClientIdentifier(headers)
                             :> [p \in PresetNames |-> IF p = preset THEN n ELSE 0])]

\* a request arrives at a route
RateLimit ==
    /\ limiter.made < MaxChecks
    /\ \E headers \in RequestHeaders, preset \in PresetNames :
         limiter' = checked(limiter, headers, preset)
    /\ UNCHANGED <<storeVars, classifyVars, captionVars, pipeVars, requestVars, formatVars, ioVars>>

\* time passes
Tick ==
    /\ limiter.now < MaxTicks * TickMs
    /\ limiter' = [limiter EXCEPT !.now = @ + TickMs]
    /\ UNCHANGED <<storeVars, classifyVars, captionVars, pipeVars, requestVars, formatVars, ioVars>>

\* RateLimiter.cleanup, run by the interval every 5 minutes: the entries
\* whose window is over are deleted
CleanupInterval ==
    /\ ~limiter.swept
    /\ limiter' = [limiter EXCEPT
                     !.swept = TRUE,
                     !.store = [k \in { i \in DOMAIN @ : ~(@[i].resetTime < limiter.now) }
                                  |-> @[k]]]
    /\ UNCHANGED <<storeVars, classifyVars, captionVars, pipeVars, requestVars, formatVars, ioVars>>

NextLimit ==
    \/ RateLimit
    \/ Tick
    \/ CleanupInterval

\* what one client has asked before: nothing, or requests under one preset
\* that stopped one short of the limit of a preset
AskedBefore ==
    UNION { { asked([forwarded |-> <<"a", ",", "b">>, realIp |-> <<>>], preset, n)
              : n \in { 0 } \cup { RateLimitPresets[q].maxRequests - 1
                                   : q \in { r \in PresetNames :
                                               RateLimitPresets[r].maxRequests
                                                 <= RateLimitPresets[preset].maxRequests } } }
            : preset \in PresetNames }

InitLimit ==
    /\ StoreInit /\ ClassifyIdle /\ CaptionIdle /\ PipeIdle /\ RequestIdle /\ FormatIdle
    /\ IoIdle
    /\ limiter \in AskedBefore

SpecLimit == InitLimit /\ [][NextLimit]_vars

\* C23: for each client identifier and each window the requests allowed
\* under a preset never exceed the preset's maxRequests; a request that
\* finds the limit reached in the running window is denied with 429 and
\* leaves the count as it is; a request that comes after the reset time of
\* the window is allowed and starts a new window with count 1
C23_NeverOverLimit ==
    /\ \A id \in DOMAIN limiter.allowedIn : \A p \in PresetNames :
          limiter.allowedIn[id][p] <= RateLimitPresets[p].maxRequests
    /\ limiter.last.preset # "" =>
          LET last == limiter.last
              max == RateLimitPresets[last.preset].maxRequests
          IN /\ (last.found /\ last.now <= last.resetTime /\ last.count >= max) =>
                   /\ ~last.allowed /\ last.status = 429
                   /\ last.countAfter = last.count /\ last.resetAfter = last.resetTime
             /\ (last.found /\ last.now > last.resetTime) =>
                   /\ last.allowed /\ last.status = 0
                   /\ last.countAfter = 1 /\ last.resetAfter = last.now + WINDOW_MS
             /\ last.status = 429 <=> ~last.allowed

\* a request under STRICT is denied after ten were allowed under STRICT in
\* the window, and the count is still ten
C23_Witness ==
    /\ limiter.last.preset = "STRICT" /\ limiter.last.status = 429
    /\ limiter.allowedIn[limiter.last.identifier]["STRICT"] = STRICT_MAX_REQUESTS
    /\ limiter.last.countAfter = STRICT_MAX_REQUESTS

\* C25 as stated: a request is denied under a preset only if the same
\* client has made the preset's maxRequests requests under that preset in
\* the running window
C25_OwnBudgetOnly ==
    limiter.last.status = 429 =>
        limiter.allowedIn[limiter.last.identifier][limiter.last.preset]
          = RateLimitPresets[limiter.last.preset].maxRequests

----------------------------------------------------------------------------
(* A mutating operation of the Store one filesystem call after another,    *)
(* and the reads that take no lock.  A handler runs until it awaits;       *)
(* another handler runs only while no handler is running.  The operation   *)
(* is the only caller of acquireLock, so the lock is free when it calls.   *)
(* io:                                                                     *)
(*   pc       idle, awaitingLock ("await this.acquireLock()"), inTry,      *)
(*            returned, threw                                              *)
(*   kind, arg   the operation and its argument                            *)
(*   before   the collections when the operation was called                *)
(*   leaves   the files its try block leaves when run in one piece         *)
(*   whole    the collections of these files                               *)
(*   calls    the filesystem calls the try block has still to make         *)
(*   running  whether the operation's handler is running                   *)
(*   read     the last read: when it was made, what it returned            *)

\* every filesystem call awaited, as with fs.promises
suspendsAtEveryCall(call) == TRUE

\* fs.unlinkSync, fs.writeFileSync: the call returns to the statement after
\* it, the handler is not suspended
suspendsAt(call) == FALSE

\* files.forEach((file) => { validatePath; fs.unlinkSync }) over readdirSync(dir)
clearCalls(fs, dir) ==
    [i \in 1..Cardinality(readdir(fs, dir)) |->
        LET v == validated[dir][SeqOf(readdir(fs, dir))[i]]
        IN IF v.ok THEN [call |-> "unlinkSync", path |-> v.path, data |-> ""]
           ELSE [call |-> "throw", path |-> "", data |-> ""]]

RECURSIVE uploadCalls(_)
\* for (const [filename, buffer] of images.entries()) { validatePath; writeFileSync }
uploadCalls(images) ==
    IF images = <<>> THEN <<>>
    ELSE LET v == validated[UPLOAD_DIR][Head(images).name]
         IN IF ~v.ok THEN << [call |-> "throw", path |-> "", data |-> ""] >>
            ELSE << [call |-> "writeFileSync", path |-> v.path, data |-> Head(images).data] >>
                 \o uploadCalls(Tail(images))

RECURSIVE resultCalls(_)
\* for (const result of results) { validatePath x2; writeFileSync x2 }
resultCalls(results) ==
    IF results = <<>> THEN <<>>
    ELSE LET r == Head(results)
             img == validated[PROCESSED_DIR][r.filename]
             txt == validated[PROCESSED_DIR][txtNameOf[r.filename]]
         IN IF ~img.ok \/ ~txt.ok THEN << [call |-> "throw", path |-> "", data |-> ""] >>
            ELSE << [call |-> "writeFileSync", path |-> img.path, data |-> r.imageData],
                    [call |-> "writeFileSync", path |-> txt.path, data |-> r.caption] >>
                 \o resultCalls(Tail(results))

\* the calls of the try block, up to the first that throws
fsCalls(kind, fs, arg) ==
    IF kind = "setUploadedImages" THEN clearCalls(fs, UPLOAD_DIR) \o uploadCalls(arg)
    ELSE clearCalls(fs, PROCESSED_DIR) \o resultCalls(arg)

\* what the reads return on fs: store.getProcessedResults(),
\* store.getUploadedImages()
Collections(fs) ==
    [processed |-> getProcessedResults(fs), uploaded |-> getUploadedImages(fs)]

\* the operation is called: const release = await this.acquireLock()
CallOperation ==
    /\ io.pc = "idle"
    /\ \E kind \in { "setUploadedImages", "setProcessedResults" } :
         \E arg \in OpArgs(kind, PathMaps, PathLists, files) :
         \E st \in { RunOp(kind, arg, files) } :
         \E cs \in { << Collections(files), Collections(st.fs) >> } :
            io' = [io EXCEPT !.pc = "awaitingLock", !.kind = kind, !.arg = arg,
                             !.before = cs[1], !.whole = cs[2], !.leaves = st.fs]
    /\ UNCHANGED <<storeVars, classifyVars, captionVars, pipeVars, requestVars, formatVars,
                   limitVars>>

\* acquireLock has returned the release function: the try block begins
EnterTry ==
    /\ io.pc = "awaitingLock"
    /\ io' = [io EXCEPT !.pc = "inTry", !.calls = fsCalls(io.kind, files, io.arg),
                        !.running = TRUE]
    /\ UNCHANGED <<storeVars, classifyVars, captionVars, pipeVars, requestVars, formatVars,
                   limitVars>>

\* the next filesystem call of the try block, or the throw of validatePath
FsCall ==
    /\ io.pc = "inTry" /\ io.calls # <<>>
    /\ \E c \in { Head(io.calls) } :
         IF c.call = "throw"
         THEN /\ io' = [io EXCEPT !.outcome = "traversal", !.calls = <<>>, !.running = TRUE]
              /\ UNCHANGED files
         ELSE \E st \in { IF c.call = "unlinkSync" THEN unlinkAll(StartOf(files), {c.path})
                           ELSE writeFileSync(StartOf(files), c.path, c.data) } :
                /\ files' = st.fs
                /\ io' = IF st.outcome = "ok"
                         THEN [io EXCEPT !.calls = Tail(@), !.running = ~suspendsAt(c)]
                         ELSE \* the call threw
                              [io EXCEPT !.outcome = st.outcome, !.calls = <<>>,
                                         !.running = TRUE]
    /\ UNCHANGED <<lockPromise, pc, awaiting, opKind, lastOp, classifyVars, captionVars,
                   pipeVars, requestVars, formatVars, limitVars>>

\* finally { release(); } and the operation's promise settles
Finally ==
    /\ io.pc = "inTry" /\ io.calls = <<>>
    /\ io' = [io EXCEPT !.pc = Completion(io.outcome), !.running = FALSE]
    /\ UNCHANGED <<storeVars, classifyVars, captionVars, pipeVars, requestVars, formatVars,
                   limitVars>>

\* another handler reads: store.getProcessedResults(), store.getUploadedImages()
ReadCollections ==
    /\ ~io.running
    /\ \E seen \in { Collections(files) } :
         io' = [io EXCEPT !.read = [made |-> TRUE, during |-> io.pc, seen |-> seen]]
    /\ UNCHANGED <<storeVars, classifyVars, captionVars, pipeVars, requestVars, formatVars,
                   limitVars>>

NextTorn ==
    \/ CallOperation
    \/ EnterTry
    \/ FsCall
    \/ Finally
    \/ ReadCollections

InitTorn ==
    /\ files \in { << >>, LeftOver, Stocked }
    /\ lockPromise = NoPromise
    /\ pc = [p \in Callers |-> "idle"]
    /\ awaiting = [p \in Callers |-> NoPromise]
    /\ opKind = [p \in Callers |-> "none"]
    /\ lastOp = NoOp
    /\ ClassifyIdle /\ CaptionIdle /\ PipeIdle /\ RequestIdle /\ FormatIdle /\ LimitIdle /\ IoIdle

SpecTorn == InitTorn /\ [][NextTorn]_vars

\* the read returned neither the collections of before the operation nor
\* those the whole operation leaves
Torn == io.read.seen # io.before /\ io.read.seen # io.whole

MixedForms ==
    [prefix : ClientPrefixes, keyword : { <<"k">> }, captionGuidance : { <<>> },
     negativeHints : { <<>> }, provider : { "openai" }]

\* the uploads that arrive: one without a file, which is refused, and one of
\* a single image
ArrivingLists == { <<>>, << [name |-> ImgName, type |-> ImageType, size |-> 1] >> }

\* the requests whose handler is between its first and its last await
Running == { r \in Requests : runs[r].pc \in { "calling", "pausing", "storing" } }

\* a request with a valid form arrives at a server whose rate limiter lets
\* it pass
ReceiveValid(r) ==
    /\ runs[r].pc = "idle"
    /\ geminiModule(env) = "loaded" /\ ~rateLimited(env)
    /\ \E form \in MixedForms :
         \E got \in { received(form, files, runs[r]) } :
            /\ files' = got.fs
            /\ runs' = [runs EXCEPT ![r] = got.run]
            /\ env' = [env EXCEPT !.count = @ + 1]
    /\ UNCHANGED <<lockPromise, pc, awaiting, opKind, lastOp, upload,
                   classifyVars, captionVars, pipeVars, formatVars, limitVars, ioVars>>

\* POST /api/upload is served while a run is at one of its awaits
UploadArrives ==
    /\ upload.route = "none"
    /\ Running # {}
    /\ \E list \in ArrivingLists :
         \E out \in { posted(list, files) } :
            /\ files' = out.fs
            /\ upload' = answered("upload", list, out)
    /\ UNCHANGED <<lockPromise, pc, awaiting, opKind, lastOp, runs, env,
                   classifyVars, captionVars, pipeVars, formatVars, limitVars, ioVars>>

NextMixed ==
    \/ \E r \in Requests : ReceiveValid(r)
    \/ \E r \in Requests : CallSettles(r)
    \/ \E r \in Requests : PauseOver(r)
    \/ \E r \in Requests : StoreResults(r)
    \/ UploadArrives

InitMixed ==
    /\ files = Stocked
    /\ lockPromise = NoPromise
    /\ pc = [p \in Callers |-> "idle"]
    /\ awaiting = [p \in Callers |-> NoPromise]
    /\ opKind = [p \in Callers |-> "none"]
    /\ lastOp = NoOp
    /\ ClassifyIdle /\ CaptionIdle /\ PipeIdle /\ FormatIdle /\ LimitIdle /\ IoIdle
    /\ upload = NoUpload
    /\ runs = [r \in Requests |-> NoRun]
    /\ env = Configured

SpecMixed == InitMixed /\ [][NextMixed]_vars

\* the requests whose call of store.setProcessedResults has been executed
Stored == { r \in Requests : runs[r].order > 0 }

\* the request whose call of store.setProcessedResults was executed last
LastStored == CHOOSE r \in Stored : \A q \in Stored : runs[q].order <= runs[r].order

\* the results of a request are one per image of the set it read when it
\* started, in the order of the set, each with the data of its image
FromImagesRead(run) ==
    /\ Len(run.loop.results) = Cardinality(DOMAIN run.read)
    /\ \A i \in 1..Len(run.loop.results) :
         /\ SeqOf(DOMAIN run.read)[i] \in DOMAIN run.read
         /\ run.loop.results[i].imageData = run.read[SeqOf(DOMAIN run.read)[i]]
         /\ run.loop.results[i].filename = StatedName(run.loop.prefix, i)

\* C27: whenever no request is between two of its awaits, the processed
\* directory holds the complete results of the one request whose
\* setProcessedResults was executed last, and nothing of another request;
\* the results of every request that stored are those of the images it read
\* when it started, whatever was uploaded since
C27_LastRunWhole ==
    (Running = {} /\ Stored # {}) =>
      /\ HoldsAll(files, runs[LastStored].loop.results)
      /\ \A r \in Stored : FromImagesRead(runs[r])

\* both requests have stored, under different prefixes, and an upload that
\* arrived during a run has replaced the two images by one
C27_Witness ==
    /\ Running = {} /\ Stored = Requests
    /\ runs[1].loop.prefix # runs[2].loop.prefix
    /\ upload.status = 200
    /\ Cardinality(DOMAIN getUploadedImages(files)) = 1
    /\ Len(runs[LastStored].loop.results) = 2
    /\ \E r \in Requests : Len(runs[r].loop.results) = 1

(***************************************************************************)
(* A client that uploads again after a run, and GET /api/download served   *)
(* whenever it is asked for                                                *)
(***************************************************************************)

\* the uploads directory holds the two images of an upload, the processed
\* directory is empty
FreshUpload ==
    addLog(setUploadedImages(<< >>, << [name |-> ImgName, data |-> "img"],
                                      [name |-> <<"a", "_", "1", ".", "j", "p", "g">>,
                                       data |-> "img"] >>).fs, "uploaded")

\* POST /api/upload after the run has answered: the route calls
\* store.setUploadedImages and no other mutating operation of the Store
UploadAfterRun ==
    /\ upload.route = "none"
    /\ runs[1].pc = "done"
    /\ \E list \in ArrivingLists :
         \E out \in { posted(list, files) } :
            /\ files' = out.fs
            /\ upload' = answered("upload", list, out)
            /\ lastOp' = IF out.status = 200
                         THEN [kind |-> "setUploadedImages", names |-> keysOf(out.images),
                               accessed |-> {}, outcome |-> "ok"]
                         ELSE lastOp
    /\ UNCHANGED <<lockPromise, pc, awaiting, opKind, runs, env,
                   classifyVars, captionVars, pipeVars, formatVars, limitVars, ioVars>>

\* GET /api/download, whatever the other requests have done
ServeDownload ==
    /\ \E processedResults \in { SeqOf(getProcessedResults(files)) } :
         IF processedResults = <<>>
         THEN \* 400: "No processed images available"
              /\ archive' = <<>>
              /\ lastOp' = [kind |-> "getProcessedResults", names |-> {},
                            accessed |-> {}, outcome |-> "empty"]
         ELSE /\ archive' = entriesOf(processedResults)
              /\ lastOp' = [kind |-> "getProcessedResults", names |-> {},
                            accessed |-> {}, outcome |-> "ok"]
    /\ UNCHANGED <<files, batch, lockPromise, pc, awaiting, opKind, classifyVars, captionVars,
                   requestVars, formatVars, limitVars, ioVars>>

NextServe ==
    \/ ReceiveValid(1)
    \/ CallSettles(1)
    \/ PauseOver(1)
    \/ StoreResults(1)
    \/ UploadAfterRun
    \/ ServeDownload

\* the server has taken an upload
InitServe ==
    /\ files = FreshUpload
    /\ lockPromise = NoPromise
    /\ pc = [p \in Callers |-> "idle"]
    /\ awaiting = [p \in Callers |-> NoPromise]
    /\ opKind = [p \in Callers |-> "none"]
    /\ lastOp = NoOp
    /\ ClassifyIdle /\ CaptionIdle /\ PipeIdle /\ FormatIdle /\ LimitIdle /\ IoIdle
    /\ upload = NoUpload
    /\ runs = [r \in Requests |-> NoRun]
    /\ env = Configured

SpecServe == InitServe /\ [][NextServe]_vars

\* the image entries of the archive GET /api/download has returned
ImagesServed == { i \in 1..Len(archive) : archive[i].kind = "image" }

\* C30 as stated: when GET /api/download has returned an archive, the
\* results it holds are those of a run over the images the uploads
\* directory holds now, one image entry for each of them
C30_ArchiveOfCurrentUploads ==
    (lastOp.kind = "getProcessedResults" /\ archive # <<>>) =>
      /\ runs[1].read = getUploadedImages(files)
      /\ Cardinality(ImagesServed) = Cardinality(readdir(files, UPLOAD_DIR))

\* what holds instead: the archive holds the results of the run that stored
\* last, whatever has been uploaded since
C30_ArchiveOfLastRun ==
    (lastOp.kind = "getProcessedResults" /\ archive # <<>>) =>
      /\ runs[1].order > 0
      /\ Cardinality(ImagesServed) = Cardinality(DOMAIN runs[1].read)


============================================================================
